---------------------------- MODULE Spec2Model ----------------------------
(***************************************************************************)
(* A model of the profit-sharing engine (class ProfitSharing) of the       *)
(* fundraising backend: the season eligibility checker, the eligible donor *)
(* finder, the Fisher-Yates donor selector, the four-stage profit formula, *)
(* the vendor distributor and the orchestrator executeProfitSharing.       *)
(*                                                                         *)
(* JavaScript Numbers are modelled as exact decimal numbers: a record      *)
(* [n |-> mantissa, s |-> scale] stands for n * 10^(-s), s an integer, and *)
(* is kept normalised (no trailing zero in the mantissa), so that two      *)
(* equal numbers are equal records.  Math.round rounds half up, as in JS.  *)
(* Binary floating-point representation error is not modelled.             *)
(***************************************************************************)
EXTENDS Integers, Sequences, FiniteSets, TLC

VARIABLES
    ProfitSharing,  \* the static fields of class ProfitSharing
    call,           \* the last direct call of a static method: [fn, args, result]
    held,           \* an earlier call kept for comparison with later ones; in
                    \* SpecWrites the states the stores have been in
    sel,            \* the frame of a selectRandomDonors call in progress
    seasons,        \* the Season store: season id -> document or Null
    donations,      \* the Donation store: <<donor, season, status>> -> number of documents
    donors,         \* the Donor store: donor id -> profile or Null
    inv             \* the executeProfitSharing invocations

vars == <<ProfitSharing, call, held, sel, seasons, donations, donors, inv>>

Null == [tag |-> "null"]

(***************************************************************************)
(* Decimal numbers.                                                        *)
(***************************************************************************)
RECURSIVE Pow10(_)
Pow10(k) == IF k = 0 THEN 1 ELSE 10 * Pow10(k - 1)

RECURSIVE Norm(_)
Norm(x) == IF x.n = 0 THEN [n |-> 0, s |-> 0]
           ELSE IF x.n % 10 = 0 THEN Norm([n |-> x.n \div 10, s |-> x.s - 1])
           ELSE x

Dec(n, s) == Norm([n |-> n, s |-> s])

Zero == Dec(0, 0)

MaxOf(a, b) == IF a >= b THEN a ELSE b

MinOf(a, b) == IF a <= b THEN a ELSE b

\* the mantissa of x at scale s (s >= x.s)
AtScale(x, s) == x.n * Pow10(s - x.s)

Mul(x, y) == Dec(x.n * y.n, x.s + y.s)

Add(x, y) == LET s == MaxOf(x.s, y.s) IN Dec(AtScale(x, s) + AtScale(y, s), s)

Sub(x, y) == LET s == MaxOf(x.s, y.s) IN Dec(AtScale(x, s) - AtScale(y, s), s)

Less(x, y) == LET s == MaxOf(x.s, y.s) IN AtScale(x, s) < AtScale(y, s)

Leq(x, y) == LET s == MaxOf(x.s, y.s) IN AtScale(x, s) <= AtScale(y, s)

Abs(x) == IF x.n < 0 THEN [n |-> 0 - x.n, s |-> x.s] ELSE x

\* Math.abs(x) in place of Math.max(0, x)
Max0Abs(x) == Abs(x)

Max0(x) == IF x.n < 0 THEN Zero ELSE x

\* x * 10^k and x / 10^k
Times10(x, k) == Dec(x.n, x.s - k)

Over10(x, k) == Dec(x.n, x.s + k)

\* Math.round(x): the nearest integer, ties towards +infinity
MathRound(x) ==
    IF x.s <= 0 THEN x
    ELSE LET q == x.n \div Pow10(x.s)
             r == x.n % Pow10(x.s)
         IN  Dec(IF 2 * r >= Pow10(x.s) THEN q + 1 ELSE q, 0)

\* Math.round(x * 100) / 100
Round2(x) == Over10(MathRound(Times10(x, 2)), 2)

\* <<floor(a * 10^k / b), remainder>> by long division, a >= 0, b > 0
RECURSIVE LongDiv(_, _, _)
LongDiv(a, b, k) == IF k = 0 THEN <<a \div b, a % b>>
                    ELSE LET p == LongDiv(a, b, k - 1)
                         IN  <<p[1] * 10 + (p[2] * 10) \div b, (p[2] * 10) % b>>

\* Math.round((x / y) * 100 * 100) / 100, for x >= 0, y > 0
RoundPercent(x, y) ==
    LET s == MaxOf(x.s, y.s)
        p == LongDiv(AtScale(x, s), AtScale(y, s), 4)
    IN  Dec(IF 2 * p[2] >= AtScale(y, s) THEN p[1] + 1 ELSE p[1], 2)

(***************************************************************************)
(* The static fields of the class.                                         *)
(***************************************************************************)
StaticFields ==
    [MULTIPLIERS |-> [INITIAL |-> Dec(18, 1), FIRST |-> Dec(1, 1),
                      SECOND |-> Dec(44, 2), FINAL |-> Dec(63, 2)],
     FINAL_MULTIPLIER |-> Mul(Mul(Mul(Dec(18, 1), Dec(1, 1)), Dec(44, 2)), Dec(63, 2)),
     MIN_DONATIONS |-> 5,
     SELECTED_DONORS_COUNT |-> 2,
     VENDOR_SPLIT |-> [AGENTS |-> Dec(5, 1), STAKEHOLDERS |-> Dec(5, 1)],
     AGENT_DISTRIBUTION |-> [FREELANCING |-> Dec(3949, 4), CORPORATE |-> Dec(3050, 4),
                             MAJOR_PER_MILLION |-> Dec(10000, 0)],
     STAKEHOLDER_DISTRIBUTION |-> [R1 |-> Dec(5, 2), PB |-> Dec(15, 2),
                                   SF |-> Dec(20, 2), BMG |-> Dec(60, 2)]]

(***************************************************************************)
(* checkSeasonEligibility(season)                                          *)
(***************************************************************************)
Statuses == {"upcoming", "active", "completed"}

StatusReason(status) ==
    CASE status = "upcoming" -> "Season status is 'upcoming' (must be 'active' or 'completed')"
      [] status = "active" -> "Season status is 'active' (must be 'active' or 'completed')"
      [] OTHER -> "Season status is 'completed' (must be 'active' or 'completed')"

\* !season.goal || season.goal <= 0
NoGoal(goal) == goal = Null \/ goal.n <= 0

\* season.totalRaised > season.goal: the goal has to be exceeded
isGoalReachedStrict(season) == Less(season.goal, season.totalRaised)

\* const isGoalReached = season.totalRaised >= season.goal
isGoalReached(season) == Leq(season.goal, season.totalRaised)

NotFoundResult ==
    [isEligible |-> FALSE, reason |-> "Season not found", details |-> [none |-> TRUE]]

NoGoalResult(season) ==
    [isEligible |-> FALSE, reason |-> "Season has no goal set",
     details |-> [goal |-> season.goal]]

\* remaining computed as totalRaised - goal
NotReachedResultRaisedMinusGoal(season) ==
    [isEligible |-> FALSE, reason |-> "Season goal not yet reached",
     details |-> [goal |-> season.goal, raised |-> season.totalRaised,
                  remaining |-> Sub(season.totalRaised, season.goal),
                  progressPercent |-> RoundPercent(season.totalRaised, season.goal)]]

NotReachedResult(season) ==
    [isEligible |-> FALSE, reason |-> "Season goal not yet reached",
     details |-> [goal |-> season.goal, raised |-> season.totalRaised,
                  remaining |-> Sub(season.goal, season.totalRaised),
                  progressPercent |-> RoundPercent(season.totalRaised, season.goal)]]

StatusResult(season) ==
    [isEligible |-> FALSE, reason |-> StatusReason(season.status),
     details |-> [status |-> season.status]]

EligibleResult(season) ==
    [isEligible |-> TRUE, reason |-> "Season is eligible for profit sharing",
     details |-> [goal |-> season.goal, raised |-> season.totalRaised,
                  progressPercent |-> Dec(100, 0), status |-> season.status]]

\* the status rule tested before the goal-reached rule
checkSeasonEligibilityStatusFirst(season) ==
    IF season = Null THEN NotFoundResult
    ELSE IF NoGoal(season.goal) THEN NoGoalResult(season)
    ELSE IF season.status # "completed" /\ season.status # "active" THEN StatusResult(season)
    ELSE IF ~ isGoalReached(season) THEN NotReachedResult(season)
    ELSE EligibleResult(season)

checkSeasonEligibility(season) ==
    IF season = Null THEN NotFoundResult
    ELSE IF NoGoal(season.goal) THEN NoGoalResult(season)
    ELSE IF ~ isGoalReached(season) THEN NotReachedResult(season)
    ELSE IF season.status # "completed" /\ season.status # "active" THEN StatusResult(season)
    ELSE EligibleResult(season)

(***************************************************************************)
(* calculateProfit(totalRaised)                                            *)
(***************************************************************************)
\* the breakdown object built from the four running products
ProfitBreakdown(totalRaised, M, FM, step1, step2, step3, finalProfit) ==
    [totalRaised |-> totalRaised,
     calculations |->
        [step1 |-> [formula |-> <<totalRaised, M.INITIAL>>, result |-> Round2(step1)],
         step2 |-> [formula |-> <<Round2(step1), M.FIRST>>, result |-> Round2(step2)],
         step3 |-> [formula |-> <<Round2(step2), M.SECOND>>, result |-> Round2(step3)],
         step4 |-> [formula |-> <<Round2(step3), M.FINAL>>, result |-> Round2(finalProfit)]],
     finalProfit |-> Round2(finalProfit),
     effectiveRate |-> Over10(MathRound(Times10(FM, 4)), 2)]

\* every stage rounded to 2 decimals and the rounded value fed into the next stage
calculateProfitChained(totalRaised) ==
    LET M == ProfitSharing.MULTIPLIERS
        step1 == Round2(Mul(totalRaised, M.INITIAL))
        step2 == Round2(Mul(step1, M.FIRST))
        step3 == Round2(Mul(step2, M.SECOND))
        finalProfit == Round2(Mul(step3, M.FINAL))
    IN  ProfitBreakdown(totalRaised, M, ProfitSharing.FINAL_MULTIPLIER,
                        step1, step2, step3, finalProfit)

\* the stages' results truncated to whole cents instead of rounded
calculateProfitTruncated(totalRaised) ==
    LET M == ProfitSharing.MULTIPLIERS
        Floor2(x) == IF x.s <= 2 THEN x ELSE Dec(x.n \div Pow10(x.s - 2), 2)
        step1 == Mul(totalRaised, M.INITIAL)
        step2 == Mul(step1, M.FIRST)
        step3 == Mul(step2, M.SECOND)
        finalProfit == Mul(step3, M.FINAL)
    IN  ProfitBreakdown(totalRaised, M, ProfitSharing.FINAL_MULTIPLIER,
                        Floor2(step1), Floor2(step2), Floor2(step3), Floor2(finalProfit))

\* the result of the previous calculateProfit call returned from a one-entry cache
calculateProfitCached(totalRaised) ==
    LET M == ProfitSharing.MULTIPLIERS
        step1 == Mul(totalRaised, M.INITIAL)
        step2 == Mul(step1, M.FIRST)
        step3 == Mul(step2, M.SECOND)
        finalProfit == Mul(step3, M.FINAL)
    IN  IF call.fn = "calculateProfit" THEN call.result
        ELSE ProfitBreakdown(totalRaised, M, ProfitSharing.FINAL_MULTIPLIER,
                             step1, step2, step3, finalProfit)

calculateProfit(totalRaised) ==
    LET M == ProfitSharing.MULTIPLIERS
        step1 == Mul(totalRaised, M.INITIAL)
        step2 == Mul(step1, M.FIRST)
        step3 == Mul(step2, M.SECOND)
        finalProfit == Mul(step3, M.FINAL)
    IN  ProfitBreakdown(totalRaised, M, ProfitSharing.FINAL_MULTIPLIER,
                        step1, step2, step3, finalProfit)

(***************************************************************************)
(* calculateAgentDistribution(agentsShare, totalRaised)                    *)
(***************************************************************************)
calculatePercentage(amount, agentsShare) ==
    IF agentsShare.n > 0 THEN RoundPercent(amount, agentsShare) ELSE Zero

\* the tolerance test written <= 0.01
calculateAgentDistributionInclusive(agentsShare, totalRaised) ==
    LET A == ProfitSharing.AGENT_DISTRIBUTION
        millionsRaised == Over10(totalRaised, 6)
        majorAgentShare == Mul(millionsRaised, A.MAJOR_PER_MILLION)
        freelancingShare == Mul(agentsShare, A.FREELANCING)
        corporateShare == Mul(agentsShare, A.CORPORATE)
        allocatedTotal == Add(Add(freelancingShare, corporateShare), majorAgentShare)
        miscellaneousShare == Max0(Sub(agentsShare, allocatedTotal))
        allFour == Add(Add(Add(freelancingShare, corporateShare), majorAgentShare),
                       miscellaneousShare)
    IN  [total |-> Round2(agentsShare),
         breakdown |->
            [freelancing |-> [amount |-> Round2(freelancingShare), percentage |-> Dec(3949, 2)],
             corporate |-> [amount |-> Round2(corporateShare), percentage |-> Dec(3050, 2)],
             major |-> [amount |-> Round2(majorAgentShare),
                        percentage |-> calculatePercentage(majorAgentShare, agentsShare),
                        calculation |-> [millionsRaised |-> Round2(millionsRaised),
                                         ratePerMillion |-> A.MAJOR_PER_MILLION]],
             miscellaneous |-> [amount |-> Round2(miscellaneousShare),
                                percentage |-> calculatePercentage(miscellaneousShare,
                                                                   agentsShare)]],
         verification |->
            [totalAllocated |-> Round2(allFour),
             matches |-> Leq(Abs(Sub(agentsShare, allFour)), Dec(1, 2))]]

calculateAgentDistribution(agentsShare, totalRaised) ==
    LET A == ProfitSharing.AGENT_DISTRIBUTION
        millionsRaised == Over10(totalRaised, 6)
        majorAgentShare == Mul(millionsRaised, A.MAJOR_PER_MILLION)
        freelancingShare == Mul(agentsShare, A.FREELANCING)
        corporateShare == Mul(agentsShare, A.CORPORATE)
        allocatedTotal == Add(Add(freelancingShare, corporateShare), majorAgentShare)
        miscellaneousShare == Max0(Sub(agentsShare, allocatedTotal))
        allFour == Add(Add(Add(freelancingShare, corporateShare), majorAgentShare),
                       miscellaneousShare)
    IN  [total |-> Round2(agentsShare),
         breakdown |->
            [freelancing |-> [amount |-> Round2(freelancingShare), percentage |-> Dec(3949, 2)],
             corporate |-> [amount |-> Round2(corporateShare), percentage |-> Dec(3050, 2)],
             major |-> [amount |-> Round2(majorAgentShare),
                        percentage |-> calculatePercentage(majorAgentShare, agentsShare),
                        calculation |-> [millionsRaised |-> Round2(millionsRaised),
                                         ratePerMillion |-> A.MAJOR_PER_MILLION]],
             miscellaneous |-> [amount |-> Round2(miscellaneousShare),
                                percentage |-> calculatePercentage(miscellaneousShare,
                                                                   agentsShare)]],
         verification |->
            [totalAllocated |-> Round2(allFour),
             matches |-> Less(Abs(Sub(agentsShare, allFour)), Dec(1, 2))]]

(***************************************************************************)
(* calculateStakeholderDistribution(stakeholdersShare)                     *)
(***************************************************************************)
calculateStakeholderDistribution(stakeholdersShare) ==
    LET S == ProfitSharing.STAKEHOLDER_DISTRIBUTION
        r1Share == Mul(stakeholdersShare, S.R1)
        pbShare == Mul(stakeholdersShare, S.PB)
        sfShare == Mul(stakeholdersShare, S.SF)
        bmgShare == Mul(stakeholdersShare, S.BMG)
        allFour == Add(Add(Add(r1Share, pbShare), sfShare), bmgShare)
    IN  [total |-> Round2(stakeholdersShare),
         breakdown |-> [r1 |-> [amount |-> Round2(r1Share), percentage |-> 5],
                        pb |-> [amount |-> Round2(pbShare), percentage |-> 15],
                        sf |-> [amount |-> Round2(sfShare), percentage |-> 20],
                        bmg |-> [amount |-> Round2(bmgShare), percentage |-> 60]],
         verification |->
            [totalAllocated |-> Round2(allFour),
             matches |-> Less(Abs(Sub(stakeholdersShare, allFour)), Dec(1, 2))]]

(***************************************************************************)
(* distributeToVendors(totalProfit, totalRaised)                           *)
(***************************************************************************)
\* the result object of distributeToVendors for the two shares
VendorBreakdown(totalProfit, totalRaised, agentsShare, stakeholdersShare) ==
    LET V == ProfitSharing.VENDOR_SPLIT
        agentDistribution == calculateAgentDistribution(agentsShare, totalRaised)
        stakeholderDistribution == calculateStakeholderDistribution(stakeholdersShare)
    IN  [totalProfit |-> Round2(totalProfit),
         vendors |->
            [agents |-> [total |-> Round2(agentsShare),
                         percentage |-> Times10(V.AGENTS, 2),
                         distribution |-> agentDistribution],
             stakeholders |-> [total |-> Round2(stakeholdersShare),
                               percentage |-> Times10(V.STAKEHOLDERS, 2),
                               distribution |-> stakeholderDistribution]],
         verification |->
            [totalDistributed |-> Round2(Add(agentsShare, stakeholdersShare)),
             matches |-> Less(Abs(Sub(totalProfit, Add(agentsShare, stakeholdersShare))),
                              Dec(1, 2))],
         summary |->
            [freelancingAgent |-> agentDistribution.breakdown.freelancing.amount,
             corporateAgent |-> agentDistribution.breakdown.corporate.amount,
             majorAgent |-> agentDistribution.breakdown.major.amount,
             miscellaneous |-> agentDistribution.breakdown.miscellaneous.amount,
             r1 |-> stakeholderDistribution.breakdown.r1.amount,
             pb |-> stakeholderDistribution.breakdown.pb.amount,
             sf |-> stakeholderDistribution.breakdown.sf.amount,
             bmg |-> stakeholderDistribution.breakdown.bmg.amount]]

\* the stakeholders' share taken from the agents' share instead of the profit
distributeToVendorsFromAgents(totalProfit, totalRaised) ==
    LET V == ProfitSharing.VENDOR_SPLIT
        agentsShare == Mul(totalProfit, V.AGENTS)
        stakeholdersShare == Mul(agentsShare, V.STAKEHOLDERS)
    IN  VendorBreakdown(totalProfit, totalRaised, agentsShare, stakeholdersShare)

distributeToVendors(totalProfit, totalRaised) ==
    LET V == ProfitSharing.VENDOR_SPLIT
        agentsShare == Mul(totalProfit, V.AGENTS)
        stakeholdersShare == Mul(totalProfit, V.STAKEHOLDERS)
    IN  VendorBreakdown(totalProfit, totalRaised, agentsShare, stakeholdersShare)

(***************************************************************************)
(* selectRandomDonors(eligibleDonors, count)                               *)
(* A draw is the value j = Math.floor(Math.random() * (i + 1)); array      *)
(* positions are the JavaScript indices 0 .. length-1.                     *)
(***************************************************************************)
\* the draw Math.floor(Math.random() * shuffled.length), over the whole array
DrawRangeWhole(i, n) == 0 .. (n - 1)

\* the values Math.floor(Math.random() * (i + 1)) can take; n is the array length
DrawRange(i, n) == 0 .. i

\* shuffled[i] = shuffled[j]; shuffled[j] = shuffled[i], without a temporary
SwapNoTemp(shuffled, i, j) == [shuffled EXCEPT ![i + 1] = shuffled[j + 1]]

\* [shuffled[i], shuffled[j]] = [shuffled[j], shuffled[i]]
Swap(shuffled, i, j) ==
    [shuffled EXCEPT ![i + 1] = shuffled[j + 1], ![j + 1] = shuffled[i + 1]]

\* the loop for (i = from; i > 0; i--), the k-th iteration drawing draws[k]
RECURSIVE FisherYates(_, _, _)
FisherYates(shuffled, i, draws) ==
    IF i > 0
    THEN FisherYates(Swap(shuffled, i, Head(draws)), i - 1, Tail(draws))
    ELSE shuffled

\* the draw sequences of a shuffle of n elements: one draw for i = n-1, ..., 1
RECURSIVE DrawSeqs(_, _)
DrawSeqs(i, n) ==
    IF i <= 0 THEN {<<>>}
    ELSE {<<j>> \o rest : j \in DrawRange(i, n), rest \in DrawSeqs(i - 1, n)}

\* shuffled.slice(1, count)
SliceFromOne(s, count) == SubSeq(s, 2, MinOf(count, Len(s)))

\* shuffled.slice(0, count)
Slice(s, count) == SubSeq(s, 1, MinOf(count, Len(s)))

\* the early return taken only when eligibleDonors.length < count
ShufflesWhenEqual(eligibleDonors, count) ==
    Len(eligibleDonors) # 0 /\ ~ (Len(eligibleDonors) < count)

\* whether the call reaches the shuffle
Shuffles(eligibleDonors, count) ==
    Len(eligibleDonors) # 0 /\ ~ (Len(eligibleDonors) <= count)

\* the draw sequences the call can make
Draws(eligibleDonors, count) ==
    IF Shuffles(eligibleDonors, count)
    THEN DrawSeqs(Len(eligibleDonors) - 1, Len(eligibleDonors))
    ELSE {<<>>}

\* the whole shuffled array returned, without the slice
selectRandomDonorsAll(eligibleDonors, count, draws) ==
    IF Len(eligibleDonors) = 0 THEN <<>>
    ELSE IF Len(eligibleDonors) <= count THEN eligibleDonors
    ELSE FisherYates(eligibleDonors, Len(eligibleDonors) - 1, draws)

selectRandomDonors(eligibleDonors, count, draws) ==
    IF Len(eligibleDonors) = 0 THEN <<>>
    ELSE IF Len(eligibleDonors) <= count THEN eligibleDonors
    ELSE Slice(FisherYates(eligibleDonors, Len(eligibleDonors) - 1, draws), count)

(***************************************************************************)
(* Bounds and input sets.                                                  *)
(***************************************************************************)
MaxCents == 50        \* totalRaised inputs 0.00 .. MaxCents/100
MaxProfitCents == 12  \* totalProfit inputs 0.00 .. MaxProfitCents/100
MaxPool == 4          \* donors in a pool handed to the selector
MaxCount == 3         \* the count handed to the selector

DonorIds == 1 .. MaxPool

NoCall == [fn |-> "none"]

IdleSel == [pc |-> "idle"]

\* 625.00 makes totalRaised * 0.049896 end in half a cent
RaisedInputs ==
    {Dec(c, 2) : c \in 0 .. MaxCents}
        \cup {Dec(625, 0), Dec(1000000, 0)}

GoalInputs == {Null, Dec(0, 0), Dec(0 - 5, 0), Dec(50, 0), Dec(1000, 0), Dec(1000000, 0)}

EligibilityRaisedInputs ==
    {Dec(0, 0), Dec(4999, 2), Dec(50, 0), Dec(99999, 2), Dec(1000, 0),
     Dec(99999999, 2), Dec(1000000, 0)}

SeasonDoc(id, goal, totalRaised, donationCount, status) ==
    [id |-> id, name |-> <<"season", id>>, campaign |-> [name |-> "campaign"],
     goal |-> goal, totalRaised |-> totalRaised,
     donationCount |-> donationCount, status |-> status]

SeasonInputs ==
    {Null} \cup {SeasonDoc(1, g, r, 0, st) :
                    g \in GoalInputs, r \in EligibilityRaisedInputs, st \in Statuses}

\* <<totalProfit, totalRaised>>
DistributeInputs ==
    ({Dec(c, 2) : c \in 0 .. MaxProfitCents}
        \X {Dec(0, 0), Dec(1, 0), Dec(3, 0), Dec(100, 0)})
        \cup {<<Dec(49896, 0), Dec(1000000, 0)>>}

MaxRepeatCents == 5   \* money inputs of the repeated calls, 0.00 .. MaxRepeatCents/100
MaxRepeatPool == 3    \* pools of the selector calls between repeated calls

RepeatRaisedInputs == {Dec(c, 2) : c \in 0 .. MaxRepeatCents} \cup {Dec(1000000, 0)}

RepeatDistributeInputs ==
    ({Dec(c, 2) : c \in 0 .. MaxRepeatCents} \X {Dec(0, 0), Dec(100, 0)})
        \cup {<<Dec(49896, 0), Dec(1000000, 0)>>}

\* the lists of pairwise distinct donors, of length 0 .. MaxPool
Range(s) == {s[k] : k \in 1 .. Len(s)}

RECURSIVE PoolsOfLen(_)
PoolsOfLen(k) ==
    IF k = 0 THEN {<<>>}
    ELSE UNION {{Append(p, d) : d \in DonorIds \ Range(p)} : p \in PoolsOfLen(k - 1)}

PoolInputs == UNION {PoolsOfLen(k) : k \in 0 .. MaxPool}

(***************************************************************************)
(* Direct calls of the static methods.  Each action is one call, kept in   *)
(* call.  SpecEligibility calls the eligibility checker.  SpecCalls calls  *)
(* the calculator, the distributor and the selector on the wide input      *)
(* sets.  SpecRepeat calls them in any order on narrow input sets, and     *)
(* held may keep any earlier calculator or distributor call.               *)
(***************************************************************************)
Called(fn, args, result) == [fn |-> fn, args |-> args, result |-> result]

CallsUnchanged == UNCHANGED <<ProfitSharing, sel, seasons, donations, donors, inv>>

\* keep the earlier call or, when keeping is on, replace it by the last one
Hold(keep) ==
    \/ held' = held
    \/ keep /\ call.fn \in {"calculateProfit", "distributeToVendors"} /\ held' = call

CallCheckSeasonEligibility ==
    /\ \E season \in SeasonInputs :
          call' = Called("checkSeasonEligibility", <<season>>,
                         checkSeasonEligibility(season))
    /\ UNCHANGED held
    /\ CallsUnchanged

CallCalculateProfit(inputs, keep) ==
    /\ \E totalRaised \in inputs :
          call' = Called("calculateProfit", <<totalRaised>>, calculateProfit(totalRaised))
    /\ Hold(keep)
    /\ CallsUnchanged

CallDistributeToVendors(inputs, keep) ==
    /\ \E a \in inputs :
          call' = Called("distributeToVendors", a, distributeToVendors(a[1], a[2]))
    /\ Hold(keep)
    /\ CallsUnchanged

\* the selector with the default count, on the pools 1..n
CallSelectRandomDonors(maxPool, keep) ==
    /\ \E n \in 0 .. maxPool :
          LET pool == [k \in 1 .. n |-> k]
              count == ProfitSharing.SELECTED_DONORS_COUNT
          IN  \E draws \in Draws(pool, count) :
                  call' = Called("selectRandomDonors", <<pool, count>>,
                                 selectRandomDonors(pool, count, draws))
    /\ Hold(keep)
    /\ CallsUnchanged

StoresIdle ==
    /\ seasons = <<>>
    /\ donations = <<>>
    /\ donors = <<>>
    /\ inv = <<>>

InitCalls ==
    /\ ProfitSharing = StaticFields
    /\ call = NoCall
    /\ held = NoCall
    /\ sel = IdleSel
    /\ StoresIdle

NextEligibility == CallCheckSeasonEligibility

SpecEligibility == InitCalls /\ [][NextEligibility]_vars

NextCalls ==
    \/ CallCalculateProfit(RaisedInputs, FALSE)
    \/ CallDistributeToVendors(DistributeInputs, FALSE)
    \/ CallSelectRandomDonors(MaxPool, FALSE)

SpecCalls == InitCalls /\ [][NextCalls]_vars

NextRepeat ==
    \/ CallCalculateProfit(RepeatRaisedInputs, TRUE)
    \/ CallDistributeToVendors(RepeatDistributeInputs, TRUE)
    \/ CallSelectRandomDonors(MaxRepeatPool, TRUE)

SpecRepeat == InitCalls /\ [][NextRepeat]_vars

(***************************************************************************)
(* Direct calls of the two sub-distributors and of the distributor         *)
(* (SpecShares).  A share is half a profit, so shares are given in half    *)
(* cents.                                                                  *)
(***************************************************************************)
MaxShareHalfCents == 40   \* share inputs 0.000 .. MaxShareHalfCents * 0.005

ShareInputs == {Dec(5 * c, 3) : c \in 0 .. MaxShareHalfCents} \cup {Dec(24948, 0)}

\* <<agentsShare, totalRaised>>
AgentInputs ==
    ({Dec(5 * c, 3) : c \in 0 .. MaxShareHalfCents}
        \X {Dec(0, 0), Dec(1, 0), Dec(3, 0), Dec(100, 0)})
        \cup {<<Dec(24948, 0), Dec(1000000, 0)>>}

CallCalculateAgentDistribution ==
    /\ \E a \in AgentInputs :
          call' = Called("calculateAgentDistribution", a,
                         calculateAgentDistribution(a[1], a[2]))
    /\ UNCHANGED held
    /\ CallsUnchanged

CallCalculateStakeholderDistribution ==
    /\ \E stakeholdersShare \in ShareInputs :
          call' = Called("calculateStakeholderDistribution", <<stakeholdersShare>>,
                         calculateStakeholderDistribution(stakeholdersShare))
    /\ UNCHANGED held
    /\ CallsUnchanged

NextShares ==
    \/ CallCalculateAgentDistribution
    \/ CallCalculateStakeholderDistribution
    \/ CallDistributeToVendors(DistributeInputs, FALSE)

SpecShares == InitCalls /\ [][NextShares]_vars

(***************************************************************************)
(* One selectRandomDonors call, statement by statement (SpecSelect).       *)
(***************************************************************************)
SelFrame(pc, eligibleDonors, count, shuffled, i, drawn, result) ==
    [pc |-> pc, eligibleDonors |-> eligibleDonors, count |-> count,
     shuffled |-> shuffled, i |-> i, drawn |-> drawn, result |-> result]

SelUnchanged == UNCHANGED <<ProfitSharing, call, held, seasons, donations, donors, inv>>

\* if (eligibleDonors.length === 0) return []
SelectReturnEmpty ==
    /\ sel.pc = "entry"
    /\ Len(sel.eligibleDonors) = 0
    /\ sel' = [sel EXCEPT !.pc = "done", !.result = <<>>]
    /\ SelUnchanged

\* if (eligibleDonors.length <= count) return [...eligibleDonors]
SelectReturnAll ==
    /\ sel.pc = "entry"
    /\ Len(sel.eligibleDonors) # 0
    /\ Len(sel.eligibleDonors) <= sel.count
    /\ sel' = [sel EXCEPT !.pc = "done", !.result = sel.eligibleDonors]
    /\ SelUnchanged

\* const shuffled = [...eligibleDonors]; i = shuffled.length - 1
SelectCopy ==
    /\ sel.pc = "entry"
    /\ Shuffles(sel.eligibleDonors, sel.count)
    /\ sel' = [sel EXCEPT !.pc = "loop", !.shuffled = sel.eligibleDonors,
                          !.i = Len(sel.eligibleDonors) - 1]
    /\ SelUnchanged

\* one iteration of a loop that shuffles eligibleDonors itself (no copy was made)
SelectIterateInPlace ==
    /\ sel.pc = "loop"
    /\ sel.i > 0
    /\ \E j \in DrawRange(sel.i, Len(sel.shuffled)) :
          sel' = [sel EXCEPT !.shuffled = Swap(sel.shuffled, sel.i, j),
                             !.eligibleDonors = Swap(sel.shuffled, sel.i, j),
                             !.i = sel.i - 1,
                             !.drawn = Append(sel.drawn, j)]
    /\ SelUnchanged

\* one iteration of the loop
SelectIterate ==
    /\ sel.pc = "loop"
    /\ sel.i > 0
    /\ \E j \in DrawRange(sel.i, Len(sel.shuffled)) :
          sel' = [sel EXCEPT !.shuffled = Swap(sel.shuffled, sel.i, j),
                             !.i = sel.i - 1,
                             !.drawn = Append(sel.drawn, j)]
    /\ SelUnchanged

\* return shuffled.slice(0, count)
SelectSlice ==
    /\ sel.pc = "loop"
    /\ ~ (sel.i > 0)
    /\ sel' = [sel EXCEPT !.pc = "done", !.result = Slice(sel.shuffled, sel.count)]
    /\ SelUnchanged

InitSelect ==
    /\ ProfitSharing = StaticFields
    /\ call = NoCall
    /\ held = NoCall
    /\ \E pool \in PoolInputs, count \in 0 .. MaxCount :
          sel = SelFrame("entry", pool, count, <<>>, 0, <<>>, <<>>)
    /\ StoresIdle

NextSelect ==
    \/ SelectReturnEmpty
    \/ SelectReturnAll
    \/ SelectCopy
    \/ SelectIterate
    \/ SelectSlice

SpecSelect == InitSelect /\ [][NextSelect]_vars

(***************************************************************************)
(* The stores.  A donation document is [donor, season, status, amount,     *)
(* date]; the Donation store maps each document to the number of stored    *)
(* copies of it.                                                           *)
(***************************************************************************)
MaxDonors == 3   \* donors in the Donor and Donation stores

StoreDonors == 1 .. MaxDonors

SeasonIds == {1, 2}

Invocations == {"a"}

DonorDoc(d, isActive) ==
    [id |-> d, firstName |-> <<"first", d>>, lastName |-> <<"last", d>>,
     email |-> <<"email", d>>, donorType |-> "individual", isActive |-> isActive]

DonationDoc(donor, season, status, amount, date) ==
    [donor |-> donor, season |-> season, status |-> status, amount |-> amount,
     date |-> date]

\* a donor's documents: early completed donations of 10.00 and a late one of 20.50
\* to season 1, a pending one to season 1 and a completed one to season 2
EarlyDoc(d) == DonationDoc(d, 1, "completed", Dec(10, 0), 1)

LateDoc(d) == DonationDoc(d, 1, "completed", Dec(2050, 2), 2)

PendingDoc(d) == DonationDoc(d, 1, "pending", Dec(5, 0), 3)

OtherSeasonDoc(d) == DonationDoc(d, 2, "completed", Dec(7, 0), 0)

DonationDocs == UNION {{EarlyDoc(d), LateDoc(d), PendingDoc(d), OtherSeasonDoc(d)} :
                          d \in StoreDonors}

\* the Donation stores in which donor d has early[d] early documents
DonationStore(early) ==
    [k \in DonationDocs |-> IF k = EarlyDoc(k.donor) THEN early[k.donor] ELSE 1]

\* season 1 varies; season 2 has reached its goal and has no donor with 5 donations
SeasonOneInputs ==
    {Null} \cup {SeasonDoc(1, g, r, 12, st) :
                    g \in {Null, Dec(100, 0)},
                    r \in {Dec(9999, 2), Dec(100, 0)},
                    st \in Statuses}

SeasonTwo == SeasonDoc(2, Dec(50, 0), Dec(60, 0), 3, "active")

(***************************************************************************)
(* getEligibleDonors(seasonId): the aggregation pipeline.                  *)
(***************************************************************************)
\* $sum: '$amount' over the stored copies of the documents S
RECURSIVE AmountOf(_)
AmountOf(S) ==
    IF S = {} THEN Zero
    ELSE LET k == CHOOSE x \in S : TRUE
         IN  Add(Mul(Dec(donations[k], 0), k.amount), AmountOf(S \ {k}))

\* $sum: 1 over the stored copies of the documents S
RECURSIVE CountOf(_)
CountOf(S) ==
    IF S = {} THEN 0
    ELSE LET k == CHOOSE x \in S : TRUE IN donations[k] + CountOf(S \ {k})

MinDate(S) == CHOOSE m \in {k.date : k \in S} : \A k \in S : m <= k.date

MaxDate(S) == CHOOSE m \in {k.date : k \in S} : \A k \in S : m >= k.date

\* $match { season } without the status filter
MatchSeasonAnyStatus(seasonId) ==
    {k \in DOMAIN donations : donations[k] > 0 /\ k.season = seasonId}

\* $match { season, status: 'completed' }
MatchSeasonCompleted(seasonId) ==
    {k \in DOMAIN donations :
        donations[k] > 0 /\ k.season = seasonId /\ k.status = "completed"}

\* $group by donor
GroupByDonor(matched) ==
    {LET docs == {k \in matched : k.donor = d}
     IN  [id |-> d, donationCount |-> CountOf(docs),
          totalContributed |-> AmountOf(docs),
          firstDonation |-> MinDate(docs), lastDonation |-> MaxDate(docs)] :
     d \in {k.donor : k \in matched}}

\* $match { donationCount: { $gte: MIN_DONATIONS + 1 } }
MatchDonationCountAbove(grouped) ==
    {g \in grouped : g.donationCount > ProfitSharing.MIN_DONATIONS}

\* $match { donationCount: { $gte: MIN_DONATIONS } }
MatchDonationCount(grouped) ==
    {g \in grouped : g.donationCount >= ProfitSharing.MIN_DONATIONS}

\* $lookup from donors, $unwind, $match { 'donorInfo.isActive': true }
LookupActiveDonors(counted) ==
    {g \in counted : donors[g.id] # Null /\ donors[g.id].isActive}

\* $project
Project(g) ==
    [donorId |-> g.id,
     donor |-> [id |-> donors[g.id].id, firstName |-> donors[g.id].firstName,
                lastName |-> donors[g.id].lastName, email |-> donors[g.id].email,
                donorType |-> donors[g.id].donorType],
     donationCount |-> g.donationCount, totalContributed |-> g.totalContributed,
     firstDonation |-> g.firstDonation, lastDonation |-> g.lastDonation]

\* the documents the pipeline yields
EligibleDonorSet(seasonId) ==
    {Project(g) : g \in LookupActiveDonors(MatchDonationCount(
                            GroupByDonor(MatchSeasonCompleted(seasonId))))}

\* the orders in which a set of documents can be returned
RECURSIVE Orders(_)
Orders(S) ==
    IF S = {} THEN {<<>>}
    ELSE UNION {{<<x>> \o rest : rest \in Orders(S \ {x})} : x \in S}

\* the pipeline states no $sort: the documents come back in any order
getEligibleDonors(seasonId) == Orders(EligibleDonorSet(seasonId))

(***************************************************************************)
(* executeProfitSharing(seasonId)                                          *)
(***************************************************************************)
FullName(d) == <<d.donor.firstName, d.donor.lastName>>

\* eligibleDonors.length <= SELECTED_DONORS_COUNT
TooFewDonorsInclusive(eligibleDonors) ==
    Len(eligibleDonors) <= ProfitSharing.SELECTED_DONORS_COUNT

\* eligibleDonors.length < SELECTED_DONORS_COUNT
TooFewDonors(eligibleDonors) ==
    Len(eligibleDonors) < ProfitSharing.SELECTED_DONORS_COUNT

SeasonNotFound(seasonId) ==
    [success |-> FALSE, error |-> "Season not found", seasonId |-> seasonId]

NotEligible(season, eligibility) ==
    [success |-> FALSE, error |-> eligibility.reason, details |-> eligibility.details,
     season |-> [id |-> season.id, name |-> season.name,
                 campaign |-> season.campaign.name]]

NoEligibleDonors(season) ==
    [success |-> FALSE, error |-> "No eligible donors found",
     message |-> <<"No donors have made at least", ProfitSharing.MIN_DONATIONS,
                   "donations to this season">>,
     season |-> [id |-> season.id, name |-> season.name,
                 totalDonations |-> season.donationCount]]

\* the failure reporting the number of donors found, with an empty list
InsufficientDonorsCountOnly(eligibleDonors) ==
    [success |-> FALSE, error |-> "Insufficient eligible donors",
     message |-> <<"Found only", Len(eligibleDonors), "eligible donor(s), but",
                   ProfitSharing.SELECTED_DONORS_COUNT, "are required">>,
     eligibleDonors |-> <<>>]

InsufficientDonors(eligibleDonors) ==
    [success |-> FALSE, error |-> "Insufficient eligible donors",
     message |-> <<"Found only", Len(eligibleDonors), "eligible donor(s), but",
                   ProfitSharing.SELECTED_DONORS_COUNT, "are required">>,
     eligibleDonors |->
        [k \in 1 .. Len(eligibleDonors) |->
            [fullName |-> FullName(eligibleDonors[k]),
             email |-> eligibleDonors[k].donor.email,
             donationCount |-> eligibleDonors[k].donationCount]]]

Failed(message) ==
    [success |-> FALSE, error |-> "Failed to execute profit sharing", message |-> message]

\* step 7: the result assembled from the outcomes of steps 3 to 6
Succeeded(season, eligibleDonors, selectedDonors, profitCalculation, vendorDistribution) ==
        [success |-> TRUE,
         message |-> "Profit sharing executed successfully",
         season |-> [id |-> season.id, name |-> season.name,
                     campaign |-> season.campaign.name, goal |-> season.goal,
                     totalRaised |-> season.totalRaised,
                     donationCount |-> season.donationCount, status |-> season.status],
         eligibility |->
            [totalEligibleDonors |-> Len(eligibleDonors),
             minimumDonationsRequired |-> ProfitSharing.MIN_DONATIONS,
             allEligibleDonors |->
                [k \in 1 .. Len(eligibleDonors) |->
                    [fullName |-> FullName(eligibleDonors[k]),
                     email |-> eligibleDonors[k].donor.email,
                     donationCount |-> eligibleDonors[k].donationCount,
                     totalContributed |-> Round2(eligibleDonors[k].totalContributed)]]],
         selectedDonors |->
            [k \in 1 .. Len(selectedDonors) |->
                [rank |-> k,
                 donor |-> [id |-> selectedDonors[k].donor.id,
                            fullName |-> FullName(selectedDonors[k]),
                            email |-> selectedDonors[k].donor.email,
                            donorType |-> selectedDonors[k].donor.donorType],
                 contributions |->
                    [donationCount |-> selectedDonors[k].donationCount,
                     totalContributed |-> Round2(selectedDonors[k].totalContributed),
                     firstDonation |-> selectedDonors[k].firstDonation,
                     lastDonation |-> selectedDonors[k].lastDonation]]],
         profitCalculation |-> profitCalculation,
         vendorDistribution |-> vendorDistribution]

Frame(pc, seasonId, season, eligibleDonors, faulted, result) ==
    [pc |-> pc, seasonId |-> seasonId, season |-> season,
     eligibleDonors |-> eligibleDonors, faulted |-> faulted, result |-> result]

IdleFrame == Frame("idle", 0, Null, <<>>, FALSE, Null)

ExecUnchanged == UNCHANGED <<ProfitSharing, call, held, sel, seasons, donations, donors>>

\* executeProfitSharing(seasonId) is called and issues Season.findById
ExecStart(i) ==
    /\ inv[i].pc = "idle"
    /\ \E seasonId \in SeasonIds :
          inv' = [inv EXCEPT ![i] = [@ EXCEPT !.pc = "findById", !.seasonId = seasonId]]
    /\ ExecUnchanged

\* Season.findById answers; an eligible season is marked completed in the store
ExecAfterSeasonClosesSeason(i) ==
    /\ inv[i].pc = "findById"
    /\ LET season == seasons[inv[i].seasonId]
           eligibility == checkSeasonEligibility(season)
       IN  /\ inv' = [inv EXCEPT ![i] =
                 IF season = Null
                 THEN [@ EXCEPT !.pc = "done", !.result = SeasonNotFound(inv[i].seasonId)]
                 ELSE IF ~ eligibility.isEligible
                 THEN [@ EXCEPT !.pc = "done", !.season = season,
                                !.result = NotEligible(season, eligibility)]
                 ELSE [@ EXCEPT !.pc = "aggregate", !.season = season]]
           /\ seasons' = IF season # Null /\ eligibility.isEligible
                         THEN [seasons EXCEPT ![inv[i].seasonId].status = "completed"]
                         ELSE seasons
    /\ UNCHANGED <<ProfitSharing, call, held, sel, donations, donors>>

\* Season.findById answers; steps 1 and 2 run up to the call of getEligibleDonors
ExecAfterSeason(i) ==
    /\ inv[i].pc = "findById"
    /\ LET season == seasons[inv[i].seasonId]
           eligibility == checkSeasonEligibility(season)
       IN  inv' = [inv EXCEPT ![i] =
              IF season = Null
              THEN [@ EXCEPT !.pc = "done", !.result = SeasonNotFound(inv[i].seasonId)]
              ELSE IF ~ eligibility.isEligible
              THEN [@ EXCEPT !.pc = "done", !.season = season,
                             !.result = NotEligible(season, eligibility)]
              ELSE [@ EXCEPT !.pc = "aggregate", !.season = season]]
    /\ ExecUnchanged

\* Season.findById rejects: the catch block answers
ExecSeasonFault(i) ==
    /\ inv[i].pc = "findById"
    /\ inv' = [inv EXCEPT ![i] = [@ EXCEPT !.pc = "done", !.faulted = TRUE,
                                           !.result = Failed("season query failed")]]
    /\ ExecUnchanged

\* Donation.aggregate answers; steps 3 to 7 run to the end
ExecAfterDonors(i) ==
    /\ inv[i].pc = "aggregate"
    /\ LET season == inv[i].season
       IN  \* steps 5 and 6 do not depend on the donors: their values are taken once
           \E profitCalculation \in {calculateProfit(season.totalRaised)} :
           \E vendorDistribution \in {distributeToVendors(profitCalculation.finalProfit,
                                                          season.totalRaised)} :
           \E eligibleDonors \in getEligibleDonors(inv[i].seasonId) :
             \E draws \in Draws(eligibleDonors, ProfitSharing.SELECTED_DONORS_COUNT) :
                inv' = [inv EXCEPT ![i] =
                   [@ EXCEPT !.pc = "done", !.eligibleDonors = eligibleDonors,
                             !.result =
                                IF Len(eligibleDonors) = 0
                                THEN NoEligibleDonors(season)
                                ELSE IF TooFewDonors(eligibleDonors)
                                THEN InsufficientDonors(eligibleDonors)
                                ELSE Succeeded(season, eligibleDonors,
                                        selectRandomDonors(eligibleDonors,
                                            ProfitSharing.SELECTED_DONORS_COUNT, draws),
                                        profitCalculation, vendorDistribution)]]
    /\ ExecUnchanged

\* Donation.aggregate rejects and no catch block answers: the rejection leaves
\* executeProfitSharing
ExecDonorsFaultRethrown(i) ==
    /\ inv[i].pc = "aggregate"
    /\ inv' = [inv EXCEPT ![i] = [@ EXCEPT !.pc = "thrown", !.faulted = TRUE]]
    /\ ExecUnchanged

\* Donation.aggregate rejects: getEligibleDonors rethrows, the catch block answers
ExecDonorsFault(i) ==
    /\ inv[i].pc = "aggregate"
    /\ inv' = [inv EXCEPT ![i] = [@ EXCEPT !.pc = "done", !.faulted = TRUE,
                                           !.result = Failed("donation query failed")]]
    /\ ExecUnchanged

Init ==
    /\ ProfitSharing = StaticFields
    /\ call = NoCall
    /\ held = NoCall
    /\ sel = IdleSel
    /\ \E one \in SeasonOneInputs : seasons = [id \in SeasonIds |-> IF id = 1 THEN one ELSE SeasonTwo]
    /\ \E early \in [StoreDonors -> {3, 4}] : donations = DonationStore(early)
    /\ donors \in [StoreDonors -> {Null} \cup {DonorDoc(d, b) : d \in StoreDonors, b \in BOOLEAN}]
    /\ \A d \in StoreDonors : donors[d] # Null => donors[d].id = d
    /\ inv = [i \in Invocations |-> IdleFrame]

Next ==
    \E i \in Invocations :
        \/ ExecStart(i)
        \/ ExecAfterSeason(i)
        \/ ExecSeasonFault(i)
        \/ ExecAfterDonors(i)
        \/ ExecDonorsFault(i)

Spec == Init /\ [][Next]_vars

(***************************************************************************)
(* getProfitSharingSummary(seasonIds)                                      *)
(* A property read of a field an object does not have gives undefined,     *)
(* and undefined || 0 is 0.                                                *)
(***************************************************************************)
Undefined == [tag |-> "undefined"]

\* obj.name
Field(obj, name) == IF name \in DOMAIN obj THEN obj[name] ELSE Undefined

\* x || 0, for x a number or undefined
OrZero(x) == IF x = Undefined \/ x = Zero THEN Zero ELSE x

\* reduce((sum, x) => sum + x, 0)
RECURSIVE Reduce(_)
Reduce(amounts) ==
    IF Len(amounts) = 0 THEN Zero
    ELSE Add(Reduce(SubSeq(amounts, 1, Len(amounts) - 1)), amounts[Len(amounts)])

\* r.profitCalculation?.finalProfit || 0
ProfitOf(r) ==
    IF "profitCalculation" \in DOMAIN r
    THEN OrZero(Field(r.profitCalculation, "finalProfit")) ELSE Zero

\* r.vendorDistribution?.vendors.<vendor>.amount || 0
VendorAmountOf(r, vendor) ==
    IF "vendorDistribution" \in DOMAIN r
    THEN OrZero(Field(r.vendorDistribution.vendors[vendor], "amount")) ELSE Zero

\* { seasonId: f.seasonId || f.season?.id, error: f.error, message: f.message }
FailedEntry(f) ==
    [seasonId |-> IF "seasonId" \in DOMAIN f THEN f.seasonId
                  ELSE IF "season" \in DOMAIN f THEN Field(f.season, "id")
                  ELSE Undefined,
     error |-> f.error,
     message |-> Field(f, "message")]

\* the returned object, from the two filtered lists
SummaryOf(seasonIds, successful, failed) ==
    [summary |->
        [totalSeasons |-> Len(seasonIds),
         successful |-> Len(successful),
         failed |-> Len(failed),
         totalProfit |->
            Round2(Reduce([k \in 1 .. Len(successful) |-> ProfitOf(successful[k])])),
         totalToAgents |->
            Round2(Reduce([k \in 1 .. Len(successful) |->
                              VendorAmountOf(successful[k], "agents")])),
         totalToStakeholders |->
            Round2(Reduce([k \in 1 .. Len(successful) |->
                              VendorAmountOf(successful[k], "stakeholders")]))],
     successfulDistributions |-> successful,
     failedDistributions |-> [k \in 1 .. Len(failed) |-> FailedEntry(failed[k])]]

\* the failed list without the results of the catch block
getProfitSharingSummarySkipFaults(seasonIds, results) ==
    SummaryOf(seasonIds,
              SelectSeq(results, LAMBDA r : r.success),
              SelectSeq(results, LAMBDA r : ~ r.success
                                    /\ r.error # "Failed to execute profit sharing"))

\* the results taken last position first
getProfitSharingSummaryReversed(seasonIds, results) ==
    SummaryOf(seasonIds,
              SelectSeq([k \in 1 .. Len(results) |-> results[Len(results) + 1 - k]],
                        LAMBDA r : r.success),
              SelectSeq([k \in 1 .. Len(results) |-> results[Len(results) + 1 - k]],
                        LAMBDA r : ~ r.success))

\* the part after Promise.all has answered with results
getProfitSharingSummary(seasonIds, results) ==
    SummaryOf(seasonIds,
              SelectSeq(results, LAMBDA r : r.success),
              SelectSeq(results, LAMBDA r : ~ r.success))

(***************************************************************************)
(* One getProfitSharingSummary call (SpecBatch): the orchestrator          *)
(* invocations of the batch, one per position of seasonIds, run            *)
(* interleaved; the call returns when all of them have answered.           *)
(***************************************************************************)
MaxBatch == 2   \* season ids in a batch

RECURSIVE BatchesOfLen(_)
BatchesOfLen(k) ==
    IF k = 0 THEN {<<>>}
    ELSE {Append(b, id) : b \in BatchesOfLen(k - 1), id \in SeasonIds}

BatchInputs == UNION {BatchesOfLen(k) : k \in 0 .. MaxBatch}

\* donors 1..n1 have 5 completed donations to season 1, donors 1..n2 to season 2
BatchDonationStore(n1, n2) ==
    [k \in {EarlyDoc(d) : d \in StoreDonors} \cup {OtherSeasonDoc(d) : d \in StoreDonors} |->
        IF k.donor <= (IF k.season = 1 THEN n1 ELSE n2) THEN 5 ELSE 1]

BatchSeasonOneInputs ==
    {Null, SeasonDoc(1, Dec(100, 0), Dec(100, 0), 12, "completed"),
     SeasonDoc(1, Dec(100, 0), Dec(9999, 2), 12, "active")}

InitBatch ==
    /\ ProfitSharing = StaticFields
    /\ call = NoCall
    /\ held = NoCall
    /\ sel = IdleSel
    /\ \E one \in BatchSeasonOneInputs :
          seasons = [id \in SeasonIds |-> IF id = 1 THEN one ELSE SeasonTwo]
    /\ \E n1 \in {1, 2}, n2 \in {0, 2} : donations = BatchDonationStore(n1, n2)
    /\ donors = [d \in StoreDonors |-> DonorDoc(d, TRUE)]
    /\ inv = <<>>

\* seasonIds.map(id => executeProfitSharing(id)): every invocation runs up to
\* its Season.findById
SummaryStart ==
    /\ call = NoCall
    /\ \E seasonIds \in BatchInputs :
          /\ call' = Called("getProfitSharingSummary", <<seasonIds>>, Null)
          /\ inv' = [k \in 1 .. Len(seasonIds) |->
                        Frame("findById", seasonIds[k], Null, <<>>, FALSE, Null)]
    /\ UNCHANGED <<ProfitSharing, held, sel, seasons, donations, donors>>

\* Promise.all answers; the summary is built and returned
SummaryReturn ==
    /\ call.fn = "getProfitSharingSummary"
    /\ call.result = Null
    /\ \A k \in DOMAIN inv : inv[k].pc = "done"
    /\ call' = [call EXCEPT !.result =
                    getProfitSharingSummary(call.args[1],
                                            [k \in DOMAIN inv |-> inv[k].result])]
    /\ UNCHANGED <<ProfitSharing, held, sel, seasons, donations, donors, inv>>

NextBatch ==
    \/ SummaryStart
    \/ \E k \in DOMAIN inv :
          \/ ExecAfterSeason(k)
          \/ ExecSeasonFault(k)
          \/ ExecAfterDonors(k)
          \/ ExecDonorsFault(k)
    \/ SummaryReturn

SpecBatch == InitBatch /\ [][NextBatch]_vars

(***************************************************************************)
(* simulateProfitSharing(seasonId) (SpecSimulate): the orchestrator is     *)
(* awaited and its result object is tagged in place when it succeeded.     *)
(***************************************************************************)
SimulationMessage == "Profit sharing simulation completed (not executed)"

\* result.message = ...; result.isSimulation = true
Tagged(result) ==
    [f \in DOMAIN result \cup {"isSimulation"} |->
        IF f = "isSimulation" THEN TRUE
        ELSE IF f = "message" THEN SimulationMessage
        ELSE result[f]]

\* every result tagged, the failures too
simulateProfitSharingTagsAll(result) == Tagged(result)

\* the part after executeProfitSharing has answered with result
simulateProfitSharing(result) == IF result.success THEN Tagged(result) ELSE result

\* simulateProfitSharing(seasonId) is called and calls executeProfitSharing
SimStart(i) ==
    /\ call = NoCall
    /\ inv[i].pc = "idle"
    /\ \E seasonId \in SeasonIds :
          /\ call' = Called("simulateProfitSharing", <<seasonId>>, Null)
          /\ inv' = [inv EXCEPT ![i] = [@ EXCEPT !.pc = "findById", !.seasonId = seasonId]]
    /\ UNCHANGED <<ProfitSharing, held, sel, seasons, donations, donors>>

\* executeProfitSharing has answered; the result is tagged and returned
SimReturn(i) ==
    /\ call.fn = "simulateProfitSharing"
    /\ call.result = Null
    /\ inv[i].pc = "done"
    /\ call' = [call EXCEPT !.result = simulateProfitSharing(inv[i].result)]
    /\ UNCHANGED <<ProfitSharing, held, sel, seasons, donations, donors, inv>>

NextSimulate ==
    \E i \in Invocations :
        \/ SimStart(i)
        \/ ExecAfterSeason(i)
        \/ ExecSeasonFault(i)
        \/ ExecAfterDonors(i)
        \/ ExecDonorsFault(i)
        \/ SimReturn(i)

SpecSimulate == Init /\ [][NextSimulate]_vars

(***************************************************************************)
(* getCampaignProfitStats(campaignId) (SpecCampaign): the call issues      *)
(* Season.find and builds its answer when the query answers; the rejection *)
(* of the query is rethrown.  A stored season refers to its campaign by    *)
(* id.  The Donation and the Donor store are empty.                        *)
(***************************************************************************)
CampaignIds == {1, 2}

CampaignSeasonIds == {1, 2, 3}

CampaignSeasonDoc(id, campaignId, goal, totalRaised, status) ==
    [SeasonDoc(id, goal, totalRaised, 0, status) EXCEPT
        !.campaign = [id |-> campaignId, name |-> "campaign"]]

\* <<goal, totalRaised>> of the stored seasons: no goal, 0.01 short of the goal,
\* at the goal (profit 4.99), above it (profit 31.19)
CampaignMoneyInputs ==
    {<<Null, Dec(100, 0)>>, <<Dec(100, 0), Dec(9999, 2)>>,
     <<Dec(100, 0), Dec(100, 0)>>, <<Dec(100, 0), Dec(625, 0)>>}

CampaignSeasonInputs(id) ==
    {CampaignSeasonDoc(id, c, m[1], m[2], st) :
        c \in CampaignIds, m \in CampaignMoneyInputs, st \in Statuses}

\* Season.find({ campaign: campaignId, status: { $in: ['active', 'completed'] } })
FindSeasons(campaignId) ==
    {seasons[id] : id \in {x \in DOMAIN seasons :
        /\ seasons[x] # Null
        /\ seasons[x].campaign.id = campaignId
        /\ seasons[x].status \in {"active", "completed"}}}

\* the returned object, from the seasons found and the seasons listed
CampaignStats(campaignId, found, eligibleSeasons) ==
    LET totalPotentialProfit ==
            Reduce([k \in 1 .. Len(eligibleSeasons) |->
                       calculateProfit(eligibleSeasons[k].totalRaised).finalProfit])
    IN  [campaign |-> [id |-> campaignId, totalSeasons |-> Len(found),
                       eligibleSeasons |-> Len(eligibleSeasons)],
         potentialProfit |->
            [total |-> Round2(totalPotentialProfit),
             toAgents |-> Round2(Mul(totalPotentialProfit,
                                     ProfitSharing.VENDOR_SPLIT.AGENTS)),
             toStakeholders |-> Round2(Mul(totalPotentialProfit,
                                           ProfitSharing.VENDOR_SPLIT.STAKEHOLDERS))],
         seasonBreakdown |->
            [k \in 1 .. Len(eligibleSeasons) |->
                [id |-> eligibleSeasons[k].id, name |-> eligibleSeasons[k].name,
                 totalRaised |-> eligibleSeasons[k].totalRaised,
                 profit |-> Round2(calculateProfit(eligibleSeasons[k].totalRaised).finalProfit)]]]

\* every season found is listed, without the eligibility filter
getCampaignProfitStatsAllFound(campaignId, found) ==
    CampaignStats(campaignId, found, found)

\* the part after Season.find has answered with the seasons found
getCampaignProfitStats(campaignId, found) ==
    CampaignStats(campaignId, found,
                  SelectSeq(found, LAMBDA s : checkSeasonEligibility(s).isEligible))

StatsUnchanged == UNCHANGED <<ProfitSharing, held, sel, seasons, donations, donors, inv>>

\* getCampaignProfitStats(campaignId) is called and issues Season.find
StatsStart ==
    /\ call = NoCall
    /\ \E campaignId \in CampaignIds :
          call' = Called("getCampaignProfitStats", <<campaignId>>, Null)
    /\ StatsUnchanged

\* Season.find answers, in any order of the documents; the answer is built
StatsReturn ==
    /\ call.fn = "getCampaignProfitStats"
    /\ call.result = Null
    /\ \E found \in Orders(FindSeasons(call.args[1])) :
          call' = [call EXCEPT !.result = getCampaignProfitStats(call.args[1], found)]
    /\ StatsUnchanged

\* Season.find rejects: the catch block logs and rethrows
StatsFault ==
    /\ call.fn = "getCampaignProfitStats"
    /\ call.result = Null
    /\ call' = [call EXCEPT !.result = [thrown |-> "season query failed"]]
    /\ StatsUnchanged

InitCampaign ==
    /\ ProfitSharing = StaticFields
    /\ call = NoCall
    /\ held = NoCall
    /\ sel = IdleSel
    /\ seasons \in [CampaignSeasonIds -> UNION {CampaignSeasonInputs(id) : id \in CampaignSeasonIds}]
    /\ \A id \in CampaignSeasonIds : seasons[id].id = id
    /\ donations = <<>>
    /\ donors = <<>>
    /\ inv = <<>>

NextCampaign ==
    \/ StatsStart
    \/ StatsReturn
    \/ StatsFault

SpecCampaign == InitCampaign /\ [][NextCampaign]_vars

(***************************************************************************)
(* Concurrent invocations (SpecConcurrent): two executeProfitSharing       *)
(* invocations, the second one possibly made by simulateProfitSharing, and *)
(* a getCampaignProfitStats call run interleaved at their awaits over the  *)
(* same stores.                                                            *)
(***************************************************************************)
ConcurrentInvocations == {"a", "b"}

ConcurrentSeasonOneInputs ==
    {Null, CampaignSeasonDoc(1, 1, Dec(100, 0), Dec(100, 0), "completed"),
     CampaignSeasonDoc(1, 2, Dec(100, 0), Dec(9999, 2), "active")}

InitConcurrent ==
    /\ ProfitSharing = StaticFields
    /\ call = NoCall
    /\ held = NoCall
    /\ sel = IdleSel
    /\ \E one \in ConcurrentSeasonOneInputs :
          seasons = [id \in SeasonIds |->
                        IF id = 1 THEN one
                        ELSE CampaignSeasonDoc(2, 1, Dec(50, 0), Dec(60, 0), "active")]
    /\ \E n1 \in {1, 2, 3}, n2 \in {0, 2} : donations = BatchDonationStore(n1, n2)
    /\ donors = [d \in StoreDonors |-> DonorDoc(d, TRUE)]
    /\ inv = [i \in ConcurrentInvocations |-> IdleFrame]

NextConcurrent ==
    \/ \E i \in ConcurrentInvocations :
          \/ ExecStart(i)
          \/ ExecAfterSeason(i)
          \/ ExecSeasonFault(i)
          \/ ExecAfterDonors(i)
          \/ ExecDonorsFault(i)
    \/ SimStart("b")
    \/ SimReturn("b")
    \/ StatsStart
    \/ StatsReturn
    \/ StatsFault

SpecConcurrent == InitConcurrent /\ [][NextConcurrent]_vars

(***************************************************************************)
(* executeProfitSharing statement by statement (SpecStages): every step of *)
(* the method is an action of its own, and the frame records in stages the *)
(* stages the invocation has started, in the order of their start.         *)
(***************************************************************************)
StageFrame(pc, seasonId) ==
    [pc |-> pc, seasonId |-> seasonId, season |-> Null, eligibility |-> Null,
     eligibleDonors |-> <<>>, selectedDonors |-> <<>>, profitCalculation |-> Null,
     vendorDistribution |-> Null, faulted |-> FALSE, result |-> Null,
     stages |-> <<>>]

\* executeProfitSharing(seasonId) is called and issues Season.findById
StageFetch(i) ==
    /\ inv[i].pc = "idle"
    /\ \E seasonId \in SeasonIds :
          inv' = [inv EXCEPT ![i] = [@ EXCEPT !.pc = "findById", !.seasonId = seasonId,
                                             !.stages = Append(@, "fetch")]]
    /\ ExecUnchanged

\* Season.findById answers; a missing season is returned as a failure
StageSeasonFound(i) ==
    /\ inv[i].pc = "findById"
    /\ LET season == seasons[inv[i].seasonId]
       IN  inv' = [inv EXCEPT ![i] =
              IF season = Null
              THEN [@ EXCEPT !.pc = "done", !.result = SeasonNotFound(inv[i].seasonId)]
              ELSE [@ EXCEPT !.pc = "check", !.season = season]]
    /\ ExecUnchanged

\* Season.findById rejects: the catch block answers
StageSeasonFault(i) ==
    /\ inv[i].pc = "findById"
    /\ inv' = [inv EXCEPT ![i] = [@ EXCEPT !.pc = "done", !.faulted = TRUE,
                                           !.result = Failed("season query failed")]]
    /\ ExecUnchanged

\* step 2 without its return: the donors are fetched for an ineligible season too
StageCheckContinues(i) ==
    /\ inv[i].pc = "check"
    /\ inv' = [inv EXCEPT ![i] =
                  [@ EXCEPT !.pc = "getDonors",
                            !.eligibility = checkSeasonEligibility(inv[i].season),
                            !.stages = Append(@, "check")]]
    /\ ExecUnchanged

\* step 2: the eligibility check; an ineligible season is returned as a failure
StageCheck(i) ==
    /\ inv[i].pc = "check"
    /\ LET eligibility == checkSeasonEligibility(inv[i].season)
       IN  inv' = [inv EXCEPT ![i] =
              IF ~ eligibility.isEligible
              THEN [@ EXCEPT !.pc = "done", !.eligibility = eligibility,
                             !.stages = Append(@, "check"),
                             !.result = NotEligible(inv[i].season, eligibility)]
              ELSE [@ EXCEPT !.pc = "getDonors", !.eligibility = eligibility,
                             !.stages = Append(@, "check")]]
    /\ ExecUnchanged

\* step 3: getEligibleDonors is called and issues Donation.aggregate
StageAggregate(i) ==
    /\ inv[i].pc = "getDonors"
    /\ inv' = [inv EXCEPT ![i] = [@ EXCEPT !.pc = "aggregate",
                                           !.stages = Append(@, "aggregate")]]
    /\ ExecUnchanged

\* Donation.aggregate answers; an empty or too small pool is returned as a failure
StageDonorsFound(i) ==
    /\ inv[i].pc = "aggregate"
    /\ \E eligibleDonors \in getEligibleDonors(inv[i].seasonId) :
          inv' = [inv EXCEPT ![i] =
             IF Len(eligibleDonors) = 0
             THEN [@ EXCEPT !.pc = "done", !.eligibleDonors = eligibleDonors,
                            !.result = NoEligibleDonors(inv[i].season)]
             ELSE IF TooFewDonors(eligibleDonors)
             THEN [@ EXCEPT !.pc = "done", !.eligibleDonors = eligibleDonors,
                            !.result = InsufficientDonors(eligibleDonors)]
             ELSE [@ EXCEPT !.pc = "select", !.eligibleDonors = eligibleDonors]]
    /\ ExecUnchanged

\* Donation.aggregate rejects: getEligibleDonors rethrows, the catch block answers
StageDonorsFault(i) ==
    /\ inv[i].pc = "aggregate"
    /\ inv' = [inv EXCEPT ![i] = [@ EXCEPT !.pc = "done", !.faulted = TRUE,
                                           !.result = Failed("donation query failed")]]
    /\ ExecUnchanged

\* step 4: selectRandomDonors(eligibleDonors)
StageSelect(i) ==
    /\ inv[i].pc = "select"
    /\ \E draws \in Draws(inv[i].eligibleDonors, ProfitSharing.SELECTED_DONORS_COUNT) :
          inv' = [inv EXCEPT ![i] =
             [@ EXCEPT !.pc = "profit",
                       !.selectedDonors =
                           selectRandomDonors(inv[i].eligibleDonors,
                                              ProfitSharing.SELECTED_DONORS_COUNT, draws),
                       !.stages = Append(@, "select")]]
    /\ ExecUnchanged

\* step 5: calculateProfit(season.totalRaised)
StageProfit(i) ==
    /\ inv[i].pc = "profit"
    /\ inv' = [inv EXCEPT ![i] =
          [@ EXCEPT !.pc = "distribute",
                    !.profitCalculation = calculateProfit(inv[i].season.totalRaised),
                    !.stages = Append(@, "profit")]]
    /\ ExecUnchanged

\* step 6: distributeToVendors(profitCalculation.finalProfit, season.totalRaised)
StageDistribute(i) ==
    /\ inv[i].pc = "distribute"
    /\ inv' = [inv EXCEPT ![i] =
          [@ EXCEPT !.pc = "assemble",
                    !.vendorDistribution =
                        distributeToVendors(inv[i].profitCalculation.finalProfit,
                                            inv[i].season.totalRaised),
                    !.stages = Append(@, "distribute")]]
    /\ ExecUnchanged

\* step 7: the result is assembled and returned
StageAssemble(i) ==
    /\ inv[i].pc = "assemble"
    /\ inv' = [inv EXCEPT ![i] =
          [@ EXCEPT !.pc = "done",
                    !.result = Succeeded(inv[i].season, inv[i].eligibleDonors,
                                         inv[i].selectedDonors, inv[i].profitCalculation,
                                         inv[i].vendorDistribution)]]
    /\ ExecUnchanged

InitStages ==
    /\ ProfitSharing = StaticFields
    /\ call = NoCall
    /\ held = NoCall
    /\ sel = IdleSel
    /\ \E one \in SeasonOneInputs : seasons = [id \in SeasonIds |-> IF id = 1 THEN one ELSE SeasonTwo]
    /\ \E early \in [StoreDonors -> {3, 4}] : donations = DonationStore(early)
    /\ donors \in [StoreDonors -> {Null} \cup {DonorDoc(d, b) : d \in StoreDonors, b \in BOOLEAN}]
    /\ \A d \in StoreDonors : donors[d] # Null => donors[d].id = d
    /\ inv = [i \in Invocations |-> StageFrame("idle", 0)]

NextStages ==
    \E i \in Invocations :
        \/ StageFetch(i)
        \/ StageSeasonFound(i)
        \/ StageSeasonFault(i)
        \/ StageCheck(i)
        \/ StageAggregate(i)
        \/ StageDonorsFound(i)
        \/ StageDonorsFault(i)
        \/ StageSelect(i)
        \/ StageProfit(i)
        \/ StageDistribute(i)
        \/ StageAssemble(i)

SpecStages == InitStages /\ [][NextStages]_vars

(***************************************************************************)
(* The orchestrator while donations are being written (SpecWrites).  A     *)
(* saved Donation document starts the post-save hook recalculateTotals,    *)
(* which aggregates the completed donations of the season and then writes  *)
(* totalRaised and donationCount to the Season document.  Here call is the *)
(* frame of the hook in progress, and held is the set of the states the    *)
(* stores have been in: per season, the Season document and the documents  *)
(* the donor pipeline yields.  The stores start consistent: season 1 has   *)
(* 14 completed donations of 10.00, 5 by donor 1, 5 by donor 2, 4 by       *)
(* donor 3.                                                                *)
(***************************************************************************)
MaxSaves == 2   \* Donation documents saved during a run

WriteSeason(status) == SeasonDoc(1, Dec(100, 0), Dec(140, 0), 14, status)

WriteDonationStore ==
    [k \in {EarlyDoc(d) : d \in StoreDonors} |-> IF k.donor = 3 THEN 4 ELSE 5]

\* the state of the stores, as the orchestrator's two queries see it
StateOf(id) == [season |-> seasons[id], pool |-> EligibleDonorSet(id)]

StoreState == <<StateOf(1), StateOf(2)>>

\* a completed donation of 10.00 by donor d to season 1 is saved; the hook starts
DonationSave ==
    /\ call = NoCall
    /\ CountOf(DOMAIN donations) < WriteSeason("active").donationCount + MaxSaves
    /\ \E d \in StoreDonors :
          /\ donations' = [donations EXCEPT ![EarlyDoc(d)] = @ + 1]
          /\ call' = Called("recalculateTotals", <<EarlyDoc(d)>>, Null)
    /\ UNCHANGED <<ProfitSharing, sel, seasons, donors, inv>>
    /\ held' = held \cup {StoreState'}

\* the hook's aggregate over the completed donations of the season answers
RecalcSeasonAggregate ==
    /\ call.fn = "recalculateTotals"
    /\ call.result = Null
    /\ LET matched == MatchSeasonCompleted(call.args[1].season)
       IN  call' = [call EXCEPT !.result = [total |-> AmountOf(matched),
                                            count |-> CountOf(matched)]]
    /\ UNCHANGED <<ProfitSharing, held, sel, seasons, donations, donors, inv>>

\* Season.findByIdAndUpdate writes the totals; the hook ends
RecalcSeasonUpdate ==
    /\ call.fn = "recalculateTotals"
    /\ call.result # Null
    /\ LET id == call.args[1].season
       IN  seasons' = IF seasons[id] = Null THEN seasons
                      ELSE [seasons EXCEPT ![id].totalRaised = call.result.total,
                                           ![id].donationCount = call.result.count]
    /\ call' = NoCall
    /\ UNCHANGED <<ProfitSharing, sel, donations, donors, inv>>
    /\ held' = held \cup {StoreState'}

InitWrites ==
    /\ ProfitSharing = StaticFields
    /\ call = NoCall
    /\ sel = IdleSel
    /\ \E status \in {"active", "completed"} :
          seasons = [id \in SeasonIds |-> IF id = 1 THEN WriteSeason(status) ELSE SeasonTwo]
    /\ donations = WriteDonationStore
    /\ donors = [d \in StoreDonors |-> DonorDoc(d, TRUE)]
    /\ held = {StoreState}
    /\ inv = [i \in Invocations |-> IdleFrame]

NextWrites ==
    \/ \E i \in Invocations :
          \/ ExecStart(i)
          \/ ExecAfterSeason(i)
          \/ ExecSeasonFault(i)
          \/ ExecAfterDonors(i)
          \/ ExecDonorsFault(i)
    \/ DonationSave
    \/ RecalcSeasonAggregate
    \/ RecalcSeasonUpdate

SpecWrites == InitWrites /\ [][NextWrites]_vars

(***************************************************************************)
(* The orchestrator on the stores of end-to-end scenario A (SpecScenario): *)
(* season 1 has goal and totalRaised 1,000,000 and is completed; donors    *)
(* 1 to 6 are active with 5 completed donations each, donor 7 is active    *)
(* with 4 and donor 8 is inactive with 5.                                  *)
(***************************************************************************)
ScenarioEligible == 1 .. 6

ScenarioDonors == 1 .. 8

ScenarioSeason == SeasonDoc(1, Dec(1000000, 0), Dec(1000000, 0), 39, "completed")

ScenarioDoc(d) == DonationDoc(d, 1, "completed", Dec(2575, 2), d)

InitScenario ==
    /\ ProfitSharing = StaticFields
    /\ call = NoCall
    /\ held = NoCall
    /\ sel = IdleSel
    /\ seasons = [id \in SeasonIds |-> IF id = 1 THEN ScenarioSeason ELSE SeasonTwo]
    /\ donations = [k \in {ScenarioDoc(d) : d \in ScenarioDonors} |->
                       IF k.donor = 7 THEN 4 ELSE 5]
    /\ donors = [d \in ScenarioDonors |-> DonorDoc(d, d # 8)]
    /\ inv = [i \in Invocations |-> IdleFrame]

SpecScenario == InitScenario /\ [][Next]_vars

(***************************************************************************)
(* Properties.                                                             *)
(***************************************************************************)
Finished(i) == inv[i].pc = "done" /\ ~ inv[i].faulted

\* C1: without a collaborator fault, executeProfitSharing succeeds exactly when
\* the season exists, passes checkSeasonEligibility and has at least
\* SELECTED_DONORS_COUNT (2) eligible donors; otherwise it answers success:false
\* with the error of the first failing gate: 'Season not found', the checker's
\* reason, 'No eligible donors found' (empty pool), 'Insufficient eligible
\* donors' (one donor).
C1_GatesInOrder ==
    \A i \in Invocations :
        Finished(i) =>
            LET season == seasons[inv[i].seasonId]
                pool == EligibleDonorSet(inv[i].seasonId)
                r == inv[i].result
            IN  /\ r.success <=>
                      /\ season # Null
                      /\ checkSeasonEligibility(season).isEligible
                      /\ Cardinality(pool) >= 2
                /\ season = Null => r.error = "Season not found"
                /\ season # Null /\ ~ checkSeasonEligibility(season).isEligible
                      => r.error = checkSeasonEligibility(season).reason
                /\ season # Null /\ checkSeasonEligibility(season).isEligible
                      /\ Cardinality(pool) = 0
                      => r.error = "No eligible donors found"
                /\ season # Null /\ checkSeasonEligibility(season).isEligible
                      /\ Cardinality(pool) = 1
                      => r.error = "Insufficient eligible donors"

\* a success with exactly two eligible donors
C1_Witness ==
    \E i \in Invocations :
        /\ Finished(i)
        /\ inv[i].result.success
        /\ Cardinality(EligibleDonorSet(inv[i].seasonId)) = 2

IsCall(fn) == call.fn = fn

TheSeason == call.args[1]

HasGoal(season) == season.goal # Null /\ season.goal.n > 0

\* C2: checkSeasonEligibility takes the reason from the first failing rule, in
\* the order: season missing, goal missing/zero/negative, totalRaised < goal
\* (also for an upcoming season), status neither active nor completed.
C2_FirstFailingRule ==
    IsCall("checkSeasonEligibility") =>
        LET s == TheSeason
            r == call.result.reason
        IN  /\ s = Null => r = "Season not found"
            /\ s # Null /\ ~ HasGoal(s) => r = "Season has no goal set"
            /\ s # Null /\ HasGoal(s) /\ Less(s.totalRaised, s.goal)
                  => r = "Season goal not yet reached"
            /\ s # Null /\ HasGoal(s) /\ ~ Less(s.totalRaised, s.goal)
                  /\ s.status \notin {"active", "completed"}
                  => r = StatusReason(s.status)

C2_Witness ==
    /\ IsCall("checkSeasonEligibility")
    /\ TheSeason # Null
    /\ HasGoal(TheSeason)
    /\ Less(TheSeason.totalRaised, TheSeason.goal)
    /\ TheSeason.status = "upcoming"
    /\ call.result.reason = "Season goal not yet reached"

\* C3: checkSeasonEligibility answers isEligible = TRUE exactly for an existing
\* season with goal > 0, totalRaised >= goal and status active or completed.
C3_EligibleExactly ==
    IsCall("checkSeasonEligibility") =>
        LET s == TheSeason
        IN  call.result.isEligible <=>
               /\ s # Null
               /\ HasGoal(s)
               /\ ~ Less(s.totalRaised, s.goal)
               /\ s.status \in {"active", "completed"}

C3_Witness ==
    /\ IsCall("checkSeasonEligibility")
    /\ call.result.isEligible
    /\ TheSeason.totalRaised = TheSeason.goal

IsPermutationOf(s, pool) ==
    /\ Len(s) = Len(pool)
    /\ Range(s) = Range(pool)
    /\ \A a, b \in 1 .. Len(s) : s[a] = s[b] => a = b

\* C4: selectRandomDonors(pool, k) returns min(n, k) donors, whatever is drawn.
C4_SelectorCardinality ==
    sel.pc = "done" =>
        Len(sel.result) = MinOf(Len(sel.eligibleDonors), sel.count)

C4_Witness ==
    /\ sel.pc = "done"
    /\ Len(sel.drawn) > 0
    /\ sel.count = 2
    /\ Len(sel.result) = 2

\* C5: throughout the loop the working array is a permutation of the pool,
\* and the returned donors are pairwise distinct donors of the pool.
C5_WithoutReplacement ==
    /\ sel.pc = "loop" => IsPermutationOf(sel.shuffled, sel.eligibleDonors)
    /\ sel.pc = "done" =>
          /\ Range(sel.result) \subseteq Range(sel.eligibleDonors)
          /\ \A a, b \in 1 .. Len(sel.result) : sel.result[a] = sel.result[b] => a = b

C5_Witness ==
    /\ sel.pc = "done"
    /\ Len(sel.drawn) = 3
    /\ sel.shuffled # sel.eligibleDonors
    /\ Len(sel.result) = 2

\* the permutations of a pool, as sequences
PermutationsOf(pool) ==
    {[k \in 1 .. Len(pool) |-> pool[f[k]]] :
        f \in {g \in [1 .. Len(pool) -> 1 .. Len(pool)] :
                  \A a, b \in 1 .. Len(pool) : g[a] = g[b] => a = b}}

\* C6: for a pool larger than count, the draw sequences of the shuffle and the
\* permutations of the pool correspond one to one, the finished loop holds the
\* permutation of the draws made, and every donor can reach every selected rank.
C6_DrawsArePermutations ==
    (sel.pc = "done" /\ Shuffles(sel.eligibleDonors, sel.count)) =>
        LET pool == sel.eligibleDonors
            n == Len(pool)
            D == DrawSeqs(n - 1, n)
            out(d) == FisherYates(pool, n - 1, d)
        IN  /\ sel.drawn \in D
            /\ sel.shuffled = out(sel.drawn)
            /\ \A d1, d2 \in D : out(d1) = out(d2) => d1 = d2
            /\ {out(d) : d \in D} = PermutationsOf(pool)
            /\ \A k \in 1 .. sel.count : \A donor \in Range(pool) :
                  \E d \in D : out(d)[k] = donor

C6_Witness ==
    /\ sel.pc = "done"
    /\ sel.eligibleDonors = <<1, 2, 3, 4>>
    /\ sel.count = 2
    /\ sel.result = <<4, 3>>

Profit == call.result

Steps == Profit.calculations

\* C8 as stated: every step's result is its displayed formula (the previous
\* step's rounded result times the stage multiplier) rounded to 2 decimals,
\* and step4.result is finalProfit.
C8_Original_ChainedRounding ==
    IsCall("calculateProfit") =>
        /\ \A k \in {"step1", "step2", "step3", "step4"} :
              Steps[k].result = Round2(Mul(Steps[k].formula[1], Steps[k].formula[2]))
        /\ Steps.step4.result = Profit.finalProfit

\* C8 amended: every step's result is the unrounded running product
\* (totalRaised times the multipliers so far) rounded once; the rounded value is
\* only displayed in the next step's formula, not fed into it; step4.result is
\* finalProfit.
C8_StepsRoundedForDisplay ==
    IsCall("calculateProfit") =>
        LET x == call.args[1]
        IN  /\ Steps.step1.result = Round2(Mul(x, Dec(18, 1)))
            /\ Steps.step2.result = Round2(Mul(x, Dec(18, 2)))
            /\ Steps.step3.result = Round2(Mul(x, Dec(792, 4)))
            /\ Steps.step4.result = Round2(Mul(x, Dec(49896, 6)))
            /\ Steps.step2.formula[1] = Steps.step1.result
            /\ Steps.step3.formula[1] = Steps.step2.result
            /\ Steps.step4.formula[1] = Steps.step3.result
            /\ Steps.step4.result = Profit.finalProfit

\* a call whose step3 result differs from its displayed formula
C8_Witness ==
    /\ IsCall("calculateProfit")
    /\ call.args[1] = Dec(7, 2)
    /\ Steps.step3.result = Dec(1, 2)
    /\ Round2(Mul(Steps.step3.formula[1], Steps.step3.formula[2])) = Dec(0, 0)

Vendors == call.result.vendors

C11_AgentSubSharesMatch ==
    \A i \in Invocations :
        (Finished(i) /\ inv[i].result.success) =>
            inv[i].result.vendorDistribution.vendors.agents.distribution.verification.matches

\* the raw shares of a calculateAgentDistribution call
AgentsShare == call.args[1]

Freelancing == Mul(AgentsShare, Dec(3949, 4))

Corporate == Mul(AgentsShare, Dec(3050, 4))

Major == Mul(Over10(call.args[2], 6), Dec(10000, 0))

Allocated == Add(Add(Freelancing, Corporate), Major)

Miscellaneous == IF Less(AgentsShare, Allocated) THEN Zero ELSE Sub(AgentsShare, Allocated)

\* C12: calculateAgentDistribution reports miscellaneous =
\* max(0, agentsShare - (freelancing + corporate + major)) rounded to 2 decimals,
\* never a negative amount, also when the major share alone exceeds agentsShare.
C12_MiscellaneousClamped ==
    IsCall("calculateAgentDistribution") =>
        /\ call.result.breakdown.miscellaneous.amount = Round2(Miscellaneous)
        /\ call.result.breakdown.miscellaneous.amount.n >= 0

\* the major share alone exceeds a positive agentsShare
C12_Witness ==
    /\ IsCall("calculateAgentDistribution")
    /\ AgentsShare.n > 0
    /\ Less(AgentsShare, Major)
    /\ call.result.breakdown.miscellaneous.amount = Zero

\* C13: verification.matches of calculateAgentDistribution is true exactly when
\* the four raw sub-shares sum to within (less than) 0.01 of agentsShare, false
\* when freelancing + corporate + major exceeds agentsShare by 0.01 or more, and
\* the reported amounts are the raw sub-shares rounded, not adjusted.
C13_MatchesExactly ==
    IsCall("calculateAgentDistribution") =>
        LET sum == Add(Allocated, Miscellaneous)
            r == call.result
        IN  /\ r.verification.matches <=> Less(Abs(Sub(AgentsShare, sum)), Dec(1, 2))
            /\ Leq(Dec(1, 2), Sub(Allocated, AgentsShare)) => ~ r.verification.matches
            /\ r.breakdown.freelancing.amount = Round2(Freelancing)
            /\ r.breakdown.corporate.amount = Round2(Corporate)
            /\ r.breakdown.major.amount = Round2(Major)
            /\ r.breakdown.miscellaneous.amount = Round2(Miscellaneous)
            /\ r.verification.totalAllocated = Round2(sum)

\* the excess is exactly 0.01: agentsShare 0, totalRaised 1
C13_Witness ==
    /\ IsCall("calculateAgentDistribution")
    /\ Sub(Allocated, AgentsShare) = Dec(1, 2)
    /\ ~ call.result.verification.matches
    /\ call.result.breakdown.major.amount = Dec(1, 2)

\* the sum of the four reported stakeholder amounts
LeafSum(d) ==
    Add(Add(Add(d.breakdown.r1.amount, d.breakdown.pb.amount), d.breakdown.sf.amount),
        d.breakdown.bmg.amount)

\* C14 as stated: the reported r1 + pb + sf + bmg amounts sum exactly to the
\* reported stakeholders total, verification.matches is true, and the stakeholder
\* branch of distributeToVendors does not depend on totalRaised.
C14_StakeholderExactness ==
    /\ IsCall("calculateStakeholderDistribution") =>
          /\ LeafSum(call.result) = call.result.total
          /\ call.result.verification.matches
    /\ IsCall("distributeToVendors") =>
          Vendors.stakeholders =
             [total |-> Round2(Mul(call.args[1], Dec(5, 1))),
              percentage |-> Dec(50, 0),
              distribution |->
                 calculateStakeholderDistribution(Mul(call.args[1], Dec(5, 1)))]


\* the active donors with at least 5 completed donations to the season
ActiveWithFive(seasonId) ==
    {d \in DOMAIN donors :
        /\ donors[d] # Null
        /\ donors[d].isActive
        /\ \E k \in DOMAIN donations :
              /\ k.donor = d /\ k.season = seasonId /\ k.status = "completed"
              /\ donations[k] >= 5}

\* C15: on the stores of scenario A (goal = totalRaised = 1,000,000, completed,
\* 6 eligible donors) every fault-free executeProfitSharing(1) succeeds, selects
\* exactly 2 donors and reports finalProfit 49,896.00, agents total 24,948.00,
\* stakeholders total 24,948.00 and bmg 14,968.80.
C15_ScenarioA ==
    \A i \in Invocations :
        (Finished(i) /\ inv[i].season = ScenarioSeason
            /\ Cardinality(ActiveWithFive(inv[i].seasonId)) = 6) =>
            LET r == inv[i].result
            IN  /\ r.success
                /\ Len(r.selectedDonors) = 2
                /\ r.selectedDonors[1].donor.id # r.selectedDonors[2].donor.id
                /\ r.profitCalculation.finalProfit = Dec(49896, 0)
                /\ r.vendorDistribution.vendors.agents.total = Dec(24948, 0)
                /\ r.vendorDistribution.vendors.stakeholders.total = Dec(24948, 0)
                /\ r.vendorDistribution.vendors.stakeholders.distribution.breakdown.bmg.amount
                      = Dec(1496880, 2)

\* a finished scenario run that selected donors 6 and 1, in that order
C15_Witness ==
    \E i \in Invocations :
        /\ Finished(i)
        /\ inv[i].season = ScenarioSeason
        /\ Len(inv[i].eligibleDonors) = 6
        /\ inv[i].result.success
        /\ inv[i].result.selectedDonors[1].donor.id = 6
        /\ inv[i].result.selectedDonors[2].donor.id = 1


GateErrors ==
    {"Season not found", "Season has no goal set", "Season goal not yet reached",
     "No eligible donors found", "Insufficient eligible donors"}
        \cup {StatusReason(st) : st \in Statuses}

\* C16: executeProfitSharing never throws: an invocation ends only by returning
\* a value; a gate failure is a success:false value with the gate's error, and a
\* fault of the season fetch or of the donor aggregation is returned as
\* {success:false, error:'Failed to execute profit sharing', message:<original>}.
C16_NeverThrows ==
    \A i \in Invocations :
        /\ inv[i].pc \in {"idle", "findById", "aggregate", "done"}
        /\ inv[i].pc = "done" =>
              /\ inv[i].result.success \in BOOLEAN
              /\ inv[i].faulted =>
                    inv[i].result =
                       [success |-> FALSE, error |-> "Failed to execute profit sharing",
                        message |-> IF inv[i].season = Null THEN "season query failed"
                                    ELSE "donation query failed"]
              /\ (~ inv[i].faulted /\ ~ inv[i].result.success) =>
                    inv[i].result.error \in GateErrors

\* the donor aggregation of an eligible season faulted
C16_Witness ==
    \E i \in Invocations :
        /\ inv[i].pc = "done"
        /\ inv[i].faulted
        /\ inv[i].season # Null
        /\ inv[i].result = Failed("donation query failed")


\* an invocation that ended in one of the two InsufficientPool failures
InsufficientPool(i) ==
    /\ Finished(i)
    /\ ~ inv[i].result.success
    /\ inv[i].result.error \in {"No eligible donors found", "Insufficient eligible donors"}

\* the failure's list names exactly the donors the pipeline found
ListsFound(i) ==
    LET pool == EligibleDonorSet(inv[i].seasonId)
        r == inv[i].result
    IN  /\ "eligibleDonors" \in DOMAIN r
        /\ Len(r.eligibleDonors) = Cardinality(pool)
        /\ {r.eligibleDonors[k] : k \in 1 .. Len(r.eligibleDonors)} =
              {[fullName |-> <<d.donor.firstName, d.donor.lastName>>,
                email |-> d.donor.email, donationCount |-> d.donationCount] : d \in pool}

\* C17 as stated: every InsufficientPool failure, for zero as for too few
\* eligible donors, carries the list of the eligible donors found.
C17_Original_AlwaysLists ==
    \A i \in Invocations : InsufficientPool(i) => ListsFound(i)

\* C17 amended: the 'Insufficient eligible donors' failure (exactly 1 donor
\* found) lists that donor by name, email and donation count; the 'No eligible
\* donors found' failure carries no donor list: it carries a message and the
\* season's id, name and donation count.
C17_TooFewListsDonors ==
    \A i \in Invocations :
        InsufficientPool(i) =>
            LET r == inv[i].result
            IN  /\ r.error = "Insufficient eligible donors" =>
                      /\ ListsFound(i)
                      /\ Len(r.eligibleDonors) = 1
                /\ r.error = "No eligible donors found" =>
                      /\ EligibleDonorSet(inv[i].seasonId) = {}
                      /\ DOMAIN r = {"success", "error", "message", "season"}
                      /\ r.season = [id |-> inv[i].season.id, name |-> inv[i].season.name,
                                      totalDonations |-> inv[i].season.donationCount]

\* a failure with exactly one eligible donor, listed with 5 donations
C17_Witness ==
    \E i \in Invocations :
        /\ InsufficientPool(i)
        /\ inv[i].result.error = "Insufficient eligible donors"
        /\ Cardinality(EligibleDonorSet(inv[i].seasonId)) = 1
        /\ Len(inv[i].result.eligibleDonors) = 1
        /\ inv[i].result.eligibleDonors[1].donationCount = 5


\* a getProfitSharingSummary call that has returned
SummaryReturned == IsCall("getProfitSharingSummary") /\ call.result # Null

\* the positions of the batch whose invocation succeeded
SuccessfulPositions == {k \in DOMAIN inv : inv[k].result.success}

Amount(r, which) ==
    CASE which = "profit" -> r.profitCalculation.finalProfit
      [] which = "agents" -> r.vendorDistribution.vendors.agents.total
      [] OTHER -> r.vendorDistribution.vendors.stakeholders.total

\* the sum of an amount over the invocations at the positions S
RECURSIVE SumAt(_, _)
SumAt(S, which) ==
    IF S = {} THEN Zero
    ELSE LET k == CHOOSE x \in S : TRUE
         IN  Add(Amount(inv[k].result, which), SumAt(S \ {k}, which))

\* C18 as stated: summary.totalProfit, totalToAgents and totalToStakeholders
\* are the sums over the successful seasons of finalProfit, the agents total and
\* the stakeholders total; with a successful season of positive profit all three
\* are positive and totalToAgents + totalToStakeholders is totalProfit within
\* rounding (0.01 per successful season).
C18_SummarySums ==
    SummaryReturned =>
        LET s == call.result.summary
            S == SuccessfulPositions
        IN  /\ s.totalProfit = Round2(SumAt(S, "profit"))
            /\ s.totalToAgents = Round2(SumAt(S, "agents"))
            /\ s.totalToStakeholders = Round2(SumAt(S, "stakeholders"))
            /\ (\E k \in S : inv[k].result.profitCalculation.finalProfit.n > 0) =>
                  /\ s.totalProfit.n > 0
                  /\ s.totalToAgents.n > 0
                  /\ s.totalToStakeholders.n > 0
                  /\ Leq(Abs(Sub(Add(s.totalToAgents, s.totalToStakeholders),
                                  s.totalProfit)),
                          Dec(Cardinality(S), 2))

\* what a fault-free executeProfitSharing(seasonId) can return on the stores
ExecOutcomes(seasonId) ==
    LET season == seasons[seasonId]
        count == ProfitSharing.SELECTED_DONORS_COUNT
    IN  IF season = Null THEN {SeasonNotFound(seasonId)}
        ELSE IF ~ checkSeasonEligibility(season).isEligible
        THEN {NotEligible(season, checkSeasonEligibility(season))}
        ELSE UNION {
               IF Len(e) = 0 THEN {NoEligibleDonors(season)}
               ELSE IF Len(e) < count THEN {InsufficientDonors(e)}
               ELSE {Succeeded(season, e, selectRandomDonors(e, count, d),
                               calculateProfit(season.totalRaised),
                               distributeToVendors(
                                   calculateProfit(season.totalRaised).finalProfit,
                                   season.totalRaised)) : d \in Draws(e, count)} :
               e \in getEligibleDonors(seasonId)}

\* C19: the summary partitions the batch: successful + failed = totalSeasons =
\* the number of season ids, every position's result is in exactly one of the
\* two lists, every invocation has answered, and a failure or fault of one
\* leaves every other invocation with an outcome of a run on its own.
C19_BatchPartition ==
    SummaryReturned =>
        LET r == call.result
            seasonIds == call.args[1]
            S == SuccessfulPositions
            F == DOMAIN inv \ S
        IN  /\ DOMAIN inv = 1 .. Len(seasonIds)
            /\ r.summary.totalSeasons = Len(seasonIds)
            /\ r.summary.successful + r.summary.failed = r.summary.totalSeasons
            /\ r.summary.successful = Cardinality(S)
            /\ r.summary.failed = Cardinality(F)
            /\ Len(r.successfulDistributions) = Cardinality(S)
            /\ Len(r.failedDistributions) = Cardinality(F)
            /\ \A k \in S : \E j \in 1 .. Len(r.successfulDistributions) :
                  r.successfulDistributions[j] = inv[k].result
            /\ \A k \in F : \E j \in 1 .. Len(r.failedDistributions) :
                  r.failedDistributions[j].error = inv[k].result.error
            /\ \A j \in 1 .. Len(r.successfulDistributions) :
                  r.successfulDistributions[j].success
            /\ \A k \in DOMAIN inv :
                  /\ inv[k].pc = "done"
                  /\ inv[k].seasonId = seasonIds[k]
                  /\ ~ inv[k].faulted => inv[k].result \in ExecOutcomes(seasonIds[k])

\* a batch of two: the first invocation faulted, the second succeeded
C19_Witness ==
    /\ SummaryReturned
    /\ Len(call.args[1]) = 2
    /\ inv[1].faulted
    /\ inv[2].result.success
    /\ call.result.summary.successful = 1
    /\ call.result.summary.failed = 1


\* a returned summary of a batch with a successful season of profit 4.99: the
\* profit is summed, the two vendor totals are reported as 0
C18_Witness ==
    /\ SummaryReturned
    /\ call.result.summary.successful = 1
    /\ call.result.summary.totalProfit = Dec(499, 2)
    /\ call.result.successfulDistributions[1].vendorDistribution.vendors.agents.total
          = Dec(25, 1)
    /\ call.result.summary.totalToAgents = Zero
    /\ call.result.summary.totalToStakeholders = Zero


\* a simulateProfitSharing call that has returned
SimulationReturned == IsCall("simulateProfitSharing") /\ call.result # Null

\* C20: simulateProfitSharing succeeds exactly when executeProfitSharing does
\* on the same stores; a success is the orchestrator's result with isSimulation
\* = TRUE and the simulation message and the same season, eligibility, selected
\* donors, profitCalculation and vendorDistribution; a failure is the
\* orchestrator's failure, unchanged and untagged; no step writes to a store.
C20_SimulationIsExecute ==
    /\ [](SimulationReturned =>
            \A i \in Invocations :
                LET e == inv[i].result
                    r == call.result
                IN  /\ inv[i].pc = "done"
                    /\ inv[i].seasonId = call.args[1]
                    /\ ~ inv[i].faulted => e \in ExecOutcomes(call.args[1])
                    /\ r.success = e.success
                    /\ r.success =>
                          /\ DOMAIN r = DOMAIN e \cup {"isSimulation"}
                          /\ r.isSimulation = TRUE
                          /\ r.message = SimulationMessage
                          /\ \A f \in DOMAIN e \ {"message"} : r[f] = e[f]
                          /\ {"season", "eligibility", "selectedDonors",
                               "profitCalculation", "vendorDistribution"} \subseteq DOMAIN r
                    /\ ~ r.success => r = e /\ "isSimulation" \notin DOMAIN r)
    /\ [][seasons' = seasons /\ donations' = donations /\ donors' = donors]_vars

\* a simulation that succeeded and is tagged
C20_Witness ==
    /\ SimulationReturned
    /\ call.result.success
    /\ call.result.isSimulation
    /\ call.result.message = SimulationMessage
    /\ Len(call.result.selectedDonors) = 2


\* the stored completed donations of donor d to the season
CompletedIn(d, seasonId) ==
    {k \in DOMAIN donations :
        donations[k] > 0 /\ k.donor = d /\ k.season = seasonId /\ k.status = "completed"}

\* an invocation that finished after its donor aggregation answered
Aggregated(i) ==
    /\ Finished(i)
    /\ inv[i].season # Null
    /\ checkSeasonEligibility(inv[i].season).isEligible

\* C23: getEligibleDonors(seasonId) returns exactly one entry per donor with an
\* existing, active profile and at least 5 completed donations in the season;
\* other statuses and other seasons are not counted; donationCount and
\* totalContributed are the count and the sum of those completed donations.
C23_EligiblePool ==
    \A i \in Invocations :
        Aggregated(i) =>
            LET s == inv[i].seasonId
                e == inv[i].eligibleDonors
                expected == {d \in DOMAIN donors :
                                /\ donors[d] # Null
                                /\ donors[d].isActive
                                /\ CountOf(CompletedIn(d, s)) >= 5}
            IN  /\ {e[k].donorId : k \in 1 .. Len(e)} = expected
                /\ Len(e) = Cardinality(expected)
                /\ \A k \in 1 .. Len(e) :
                      /\ e[k].donationCount = CountOf(CompletedIn(e[k].donorId, s))
                      /\ e[k].totalContributed = AmountOf(CompletedIn(e[k].donorId, s))
                      /\ e[k].donor.id = e[k].donorId

\* donor 1 is in the pool with 5 completed donations of 60.50 in all; donor 2 has
\* 5 completed donations and an inactive profile, donor 3 has 4 and a pending one
C23_Witness ==
    \E i \in Invocations :
        /\ Aggregated(i)
        /\ inv[i].seasonId = 1
        /\ Len(inv[i].eligibleDonors) = 1
        /\ inv[i].eligibleDonors[1].donorId = 1
        /\ inv[i].eligibleDonors[1].donationCount = 5
        /\ inv[i].eligibleDonors[1].totalContributed = Dec(605, 1)
        /\ donors[2] # Null /\ ~ donors[2].isActive
        /\ CountOf(CompletedIn(2, 1)) = 5
        /\ CountOf(CompletedIn(3, 1)) = 4

\* C25: with a non-empty pool of at most count donors selectRandomDonors returns
\* the whole pool in its original order and makes no random draw.
C25_SmallPoolReturnedWhole ==
    (sel.pc = "done" /\ Len(sel.eligibleDonors) > 0
        /\ Len(sel.eligibleDonors) <= sel.count) =>
        /\ sel.result = sel.eligibleDonors
        /\ sel.drawn = <<>>

\* a pool of exactly count donors, not in ascending order
C25_Witness ==
    /\ sel.pc = "done"
    /\ sel.count = 2
    /\ sel.eligibleDonors = <<3, 1>>
    /\ sel.result = <<3, 1>>

\* C26: no step of selectRandomDonors changes the caller's list: the shuffle
\* swaps elements of the copy only.
C26_InputUnchanged ==
    [][sel.pc # "idle" => sel'.eligibleDonors = sel.eligibleDonors]_vars

\* the copy ended reversed, the input is as it was
C26_Witness ==
    /\ sel.pc = "done"
    /\ sel.eligibleDonors = <<1, 2, 3>>
    /\ sel.shuffled = <<3, 2, 1>>

\* C27: a successful result has exactly 2 selected donors ranked 1, 2 in
\* selection order, pairwise distinct and members of allEligibleDonors, which is
\* in the donor finder's order; totalEligibleDonors is its length and >= 2.
C27_ResultShape ==
    \A i \in Invocations :
        (Finished(i) /\ inv[i].result.success) =>
            LET r == inv[i].result
                e == inv[i].eligibleDonors
                sd == r.selectedDonors
                all == r.eligibility.allEligibleDonors
            IN  /\ Len(sd) = 2
                /\ \A k \in 1 .. Len(sd) : sd[k].rank = k
                /\ sd[1].donor.id # sd[2].donor.id
                /\ \A k \in 1 .. Len(sd) : \E j \in 1 .. Len(all) :
                      /\ all[j].email = sd[k].donor.email
                      /\ all[j].fullName = sd[k].donor.fullName
                      /\ all[j].donationCount = sd[k].contributions.donationCount
                /\ \E draws \in Draws(e, 2) :
                      \A k \in 1 .. Len(sd) :
                          sd[k].donor.id = selectRandomDonors(e, 2, draws)[k].donor.id
                /\ r.eligibility.totalEligibleDonors = Len(all)
                /\ Len(all) >= 2
                /\ Len(all) = Len(e)
                /\ \A j \in 1 .. Len(all) : all[j].email = e[j].donor.email

\* three eligible donors, found in the order 2, 3, 1; donors 1 and 2 selected
C27_Witness ==
    \E i \in Invocations :
        /\ Finished(i)
        /\ inv[i].result.success
        /\ inv[i].result.eligibility.totalEligibleDonors = 3
        /\ inv[i].eligibleDonors[1].donorId = 2
        /\ inv[i].eligibleDonors[3].donorId = 1
        /\ inv[i].result.selectedDonors[1].donor.id = 1
        /\ inv[i].result.selectedDonors[2].donor.id = 2

NotReached == IsCall("checkSeasonEligibility") /\ call.result.reason = "Season goal not yet reached"

\* C28 as stated: with 'Season goal not yet reached', details.remaining is
\* strictly positive and details.progressPercent is strictly below 100.
C28_Original_ProgressBelow100 ==
    NotReached =>
        /\ call.result.details.remaining.n > 0
        /\ Less(call.result.details.progressPercent, Dec(100, 0))

\* C28 amended: with 'Season goal not yet reached', details.remaining is
\* strictly positive and details.progressPercent, rounded to 2 decimals, is at
\* most 100; it is below 100 exactly when totalRaised is below 99.995% of the
\* goal, so 100 is also reported for an unreached goal.
C28_ProgressAtMost100 ==
    NotReached =>
        LET d == call.result.details
        IN  /\ d.remaining.n > 0
            /\ d.remaining = Sub(TheSeason.goal, TheSeason.totalRaised)
            /\ d.progressPercent.s <= 2
            /\ Leq(d.progressPercent, Dec(100, 0))
            /\ Less(d.progressPercent, Dec(100, 0)) <=>
                  Less(TheSeason.totalRaised, Mul(TheSeason.goal, Dec(99995, 5)))

\* 999.99 raised of a goal of 1000: not reached, progress reported as 100
C28_Witness ==
    /\ NotReached
    /\ TheSeason.goal = Dec(1000, 0)
    /\ TheSeason.totalRaised = Dec(99999, 2)
    /\ call.result.details.remaining = Dec(1, 2)
    /\ call.result.details.progressPercent = Dec(100, 0)

\* the positions of S in ascending order
RECURSIVE Ascending(_)
Ascending(S) ==
    IF S = {} THEN <<>>
    ELSE LET m == CHOOSE x \in S : \A y \in S : x <= y
         IN  <<m>> \o Ascending(S \ {m})

\* C29: the per-season executions of getProfitSharingSummary run interleaved,
\* and successfulDistributions and failedDistributions list their seasons in the
\* order of seasonIds, in whatever order the executions completed.
C29_InputOrder ==
    SummaryReturned =>
        LET r == call.result
            S == Ascending(SuccessfulPositions)
            F == Ascending(DOMAIN inv \ SuccessfulPositions)
        IN  /\ Len(r.successfulDistributions) = Len(S)
            /\ \A j \in 1 .. Len(S) :
                  /\ r.successfulDistributions[j] = inv[S[j]].result
                  /\ r.successfulDistributions[j].season.id = call.args[1][S[j]]
            /\ Len(r.failedDistributions) = Len(F)
            /\ \A j \in 1 .. Len(F) :
                  r.failedDistributions[j].error = inv[F[j]].result.error

\* the batch <<2, 1>>: both seasons succeed and are listed season 2 first
C29_Witness ==
    /\ SummaryReturned
    /\ call.args[1] = <<2, 1>>
    /\ Len(call.result.successfulDistributions) = 2
    /\ call.result.successfulDistributions[1].season.id = 2
    /\ call.result.successfulDistributions[2].season.id = 1


StatsReturned ==
    IsCall("getCampaignProfitStats") /\ call.result # Null
        /\ "campaign" \in DOMAIN call.result

\* the stored seasons of campaign c that are active or completed
StoredOf(c) ==
    {id \in DOMAIN seasons :
        seasons[id].campaign.id = c /\ seasons[id].status \in {"active", "completed"}}

\* C21: getCampaignProfitStats lists in seasonBreakdown exactly the active or
\* completed seasons of the campaign that have a positive goal and reached it,
\* whatever the donor pool; eligibleSeasons <= totalSeasons; potentialProfit.total
\* is the sum of the listed seasons' finalProfit, and toAgents and toStakeholders
\* are each 50% of it, rounded to 2 decimals.
C21_CampaignStats ==
    StatsReturned =>
        LET c == call.args[1]
            r == call.result
            b == r.seasonBreakdown
            listed == {id \in StoredOf(c) :
                          HasGoal(seasons[id])
                             /\ Leq(seasons[id].goal, seasons[id].totalRaised)}
        IN  /\ {b[k].id : k \in 1 .. Len(b)} = listed
            /\ Len(b) = Cardinality(listed)
            /\ r.campaign.eligibleSeasons = Len(b)
            /\ r.campaign.totalSeasons = Cardinality(StoredOf(c))
            /\ r.campaign.eligibleSeasons <= r.campaign.totalSeasons
            /\ \A k \in 1 .. Len(b) :
                  /\ b[k].totalRaised = seasons[b[k].id].totalRaised
                  /\ b[k].profit = Round2(Mul(b[k].totalRaised, Dec(49896, 6)))
            /\ r.potentialProfit.total = Reduce([k \in 1 .. Len(b) |-> b[k].profit])
            /\ r.potentialProfit.toAgents = Round2(Mul(r.potentialProfit.total, Dec(5, 1)))
            /\ r.potentialProfit.toStakeholders = r.potentialProfit.toAgents

\* campaign 1 has three active or completed seasons and no donation is stored;
\* two seasons are listed: 4.99 + 31.19 = 36.18, each half 18.09
C21_Witness ==
    /\ StatsReturned
    /\ donations = <<>>
    /\ call.args[1] = 1
    /\ call.result.campaign.totalSeasons = 3
    /\ call.result.campaign.eligibleSeasons = 2
    /\ call.result.potentialProfit.total = Dec(3618, 2)
    /\ call.result.potentialProfit.toAgents = Dec(1809, 2)


\* two finished invocations for the same season agree on everything but the
\* random selection and the order in which the donors were found
SameOutcome(i, j) ==
    LET r == inv[i].result
        q == inv[j].result
    IN  /\ r.success = q.success
        /\ Range(inv[i].eligibleDonors) = Range(inv[j].eligibleDonors)
        /\ ~ r.success => r.error = q.error
        /\ r.success =>
              /\ r.profitCalculation = q.profitCalculation
              /\ r.vendorDistribution = q.vendorDistribution
              /\ r.season = q.season

\* the result of invocation i is one that a run on its own, with the donors found
\* in the same order, returns from the stores
RunsAlone(i) ==
    LET seasonId == inv[i].seasonId
        season == seasons[seasonId]
        e == inv[i].eligibleDonors
        r == inv[i].result
        count == ProfitSharing.SELECTED_DONORS_COUNT
    IN  IF season = Null THEN r = SeasonNotFound(seasonId)
        ELSE IF ~ checkSeasonEligibility(season).isEligible
        THEN r = NotEligible(season, checkSeasonEligibility(season))
        ELSE /\ Range(e) = EligibleDonorSet(seasonId)
             /\ Len(e) = Cardinality(EligibleDonorSet(seasonId))
             /\ IF Len(e) = 0 THEN r = NoEligibleDonors(season)
                ELSE IF Len(e) < count THEN r = InsufficientDonors(e)
                ELSE \E p \in {calculateProfit(season.totalRaised)} :
                     \E v \in {distributeToVendors(p.finalProfit, season.totalRaised)} :
                     \E d \in Draws(e, count) :
                        r = Succeeded(season, e, selectRandomDonors(e, count, d), p, v)

StageOrder == <<"fetch", "check", "aggregate", "select", "profit", "distribute">>

\* the stages started by invocation i
Started(i) == Range(inv[i].stages)

\* the active donors with a profile and at least 5 completed donations to the season
PoolOf(seasonId) ==
    {d \in DOMAIN donors :
        /\ donors[d] # Null
        /\ donors[d].isActive
        /\ CountOf(CompletedIn(d, seasonId)) >= 5}

\* C24: within one executeProfitSharing invocation the stages start in the order
\* season fetch, eligibility check, donor aggregation, random selection, profit
\* calculation, vendor distribution; the donor aggregation is never issued for
\* a missing or ineligible season, and selector, calculator and distributor
\* never run for a pool of fewer than 2 donors; a success has run all six.
C24_StagesInOrder ==
    \A i \in Invocations :
        LET st == inv[i].stages
            stored == seasons[inv[i].seasonId]
        IN  /\ Len(st) <= Len(StageOrder)
            /\ st = SubSeq(StageOrder, 1, Len(st))
            /\ "aggregate" \in Started(i) =>
                  /\ stored # Null
                  /\ stored.status \in {"active", "completed"}
                  /\ HasGoal(stored)
                  /\ Leq(stored.goal, stored.totalRaised)
            /\ Started(i) \cap {"select", "profit", "distribute"} # {} =>
                  Cardinality(PoolOf(inv[i].seasonId)) >= 2
            /\ Finished(i) =>
                  /\ RunsAlone(i)
                  /\ inv[i].result.success <=> Len(st) = Len(StageOrder)

\* a successful invocation: all six stages started
C24_Witness ==
    \E i \in Invocations :
        /\ Finished(i)
        /\ inv[i].result.success
        /\ inv[i].stages = StageOrder

\* a pool of one donor: the invocation stopped after the donor aggregation
C24_WitnessStopped ==
    \E i \in Invocations :
        /\ Finished(i)
        /\ inv[i].result.error = "Insufficient eligible donors"
        /\ inv[i].stages = <<"fetch", "check", "aggregate">>


\* the result r shows the season and the donors of the store state S
ShowsState(r, S) ==
    LET all == r.eligibility.allEligibleDonors
        stored == S[r.season.id]
    IN  /\ stored.season # Null
        /\ r.season.totalRaised = stored.season.totalRaised
        /\ r.season.donationCount = stored.season.donationCount
        /\ r.season.status = stored.season.status
        /\ r.profitCalculation.finalProfit =
              Round2(Mul(stored.season.totalRaised, Dec(49896, 6)))
        /\ {<<all[k].email, all[k].donationCount, all[k].totalContributed>> :
                k \in 1 .. Len(all)}
              = {<<p.donor.email, p.donationCount, Round2(p.totalContributed)>> :
                    p \in stored.pool}

\* C30: a successful executeProfitSharing result shows one single state of the
\* stores, also when donation writes are interleaved between the season read
\* and the donor aggregation: its season block, profit figures and eligible
\* donor list are those of one state the stores have been in.
C30_OneStoreState ==
    \A i \in Invocations :
        (Finished(i) /\ inv[i].result.success) =>
            \E S \in held : ShowsState(inv[i].result, S)

\* the result shows totalRaised 140 of 14 donations and a donor with 6 donations,
\* while every state with totalRaised 140 had donors of at most 5 donations
C30_Witness ==
    \E i \in Invocations :
        /\ Finished(i)
        /\ inv[i].result.success
        /\ inv[i].result.season.totalRaised = Dec(140, 0)
        /\ \E k \in 1 .. Len(inv[i].eligibleDonors) :
              inv[i].eligibleDonors[k].donationCount = 6
        /\ \A S \in held :
              S[1].season.totalRaised = Dec(140, 0) =>
                  \A p \in S[1].pool : p.donationCount <= 5

=============================================================================
